---------------------------- MODULE Spec2Model ----------------------------
(***************************************************************************)
(* A model of the automata_rust regular-language engine: the Thompson      *)
(* compiler (NFA::compile), the NFA simulator (NFA::is_match), the         *)
(* multi-pattern union (NFASet::build), the longest-match lexer driver     *)
(* (Lexer::next), and the surface parser of pattern sources                *)
(* (Postfix::from_str with its lexer, and Display for Postfix).            *)
(*                                                                         *)
(* Scalars (Rust `char`) are modelled by their code points, states by the  *)
(* 0-based indices the source uses (state s is transitions[s + 1] here).   *)
(***************************************************************************)
EXTENDS Integers, Sequences, FiniteSets, TLC

VARIABLES
    pc,          \* position of the driver of the current specification
    pats,        \* the labelled postfix programs given to compile / NFASet::build
    input,       \* the input string handed to is_match / Lexer::new (code points)
    nfa,         \* the automaton under simulation (NFA or the NFA inside an NFASet)
    pos,         \* number of scalars of `input` already stepped by is_match
    sim,         \* is_match's scratch: Step, current_list, matches, overflow flag
    result,      \* what is_match returned
    lexer,       \* the fields of lexer::Lexer
    hasEof,      \* whether Token::eof() is Some
    item,        \* what the last Lexer::next call returned
    hist,        \* history of the Lexer::next calls: the eof tokens emitted,
                 \* the last Ok item before `item`, the kind of the item
                 \* before `item`
    calls,       \* the number of Lexer::next calls, modulo 2
    parsed,      \* what the surface parser made of the source `input`: the result
                 \* of from_str, its Display text, the result of parsing that
                 \* text, the tokens of the surface lexer, the compile result
    threads,     \* the is_match calls that run concurrently on `nfa`, each
                 \* with its own input and scratch
    answer,      \* what NFA::is_fixed, NFA::generate and DFA::is_match returned
    dfa          \* the fields of dfa::DFA

vars == <<pc, pats, input, nfa, pos, sim, result, lexer, hasEof, item, hist, calls, parsed, threads, answer,
          dfa>>

-----------------------------------------------------------------------------
(* Bounds of the model *)

\* longest postfix program (in tokens) compiled on its own
MaxPat == 4
\* longest input (in scalars) handed to is_match
MaxInput == 3
\* longest postfix program (in tokens) of one component of an NFASet
MaxSetPat == 2
\* most components of an NFASet
MaxSetSize == 2
\* most postfix tokens of the lexer's token patterns, taken together
MaxTokTotal == 5
\* most token patterns of the lexer's token set
MaxTokens == 2
\* longest input (in scalars) handed to the lexer
MaxLexInput == 2
\* tokens of the one pattern of a token set under repeated calls of next
MaxLoopTok == 2

\* the longest pattern source, in scalars
MaxSrc == 5

\* the longest expression (in postfix tokens) whose written source is parsed
MaxExpr == 6

\* the is_match calls that share one NFA, the longest shared pattern (in
\* postfix tokens) and the longest input of a call
ShareThreads == 2
MaxSharePat == 5
MaxShareInput == 2

\* the longest token list handed to compile as it is, and the longest input
\* matched against what it compiles to
MaxProg == 4
MaxProgInput == 1

\* is_fixed and generate: tokens of a pattern, MAX_LEN of generate
MaxFixPat == 4
MAX_LEN == 2

\* DFA::is_match: states of the table, scalars of the input
MaxDfaStates == 2
MaxDfaInput == 2

-----------------------------------------------------------------------------
(* Helpers on sequences *)

Last(s) == s[Len(s)]

Front(s) == SubSeq(s, 1, Len(s) - 1)

Range(s) == {s[i] : i \in 1..Len(s)}

Max(S) == CHOOSE x \in S : \A y \in S : y <= x

\* all sequences over S of length at most n
RECURSIVE SeqsUpTo(_, _)
SeqsUpTo(S, n) ==
    IF n = 0 THEN {<<>>}
    ELSE LET shorter == SeqsUpTo(S, n - 1)
         IN  shorter \cup {Append(s, x) : s \in {t \in shorter : Len(t) = n - 1}, x \in S}

-----------------------------------------------------------------------------
(* char::len_utf8 and str::len *)

len_utf8(c) ==
    IF c < 128 THEN 1
    ELSE IF c < 2048 THEN 2
    ELSE IF c < 65536 THEN 3
    ELSE 4

RECURSIVE str_len(_)
str_len(s) == IF s = <<>> THEN 0 ELSE len_utf8(s[1]) + str_len(Tail(s))

\* &s[n..]: the rest of s after its first n bytes (n lies on a scalar boundary)
RECURSIVE str_from(_, _)
str_from(s, n) ==
    IF n <= 0 \/ s = <<>> THEN s ELSE str_from(Tail(s), n - len_utf8(s[1]))

-----------------------------------------------------------------------------
(* parse::Lit and parse::Token *)

LitChar(c) == [k |-> "Char", lo |-> c, hi |-> c]

LitRange(lo, hi) == [k |-> "Range", lo |-> lo, hi |-> hi]

LitAny == [k |-> "Any", lo |-> 0, hi |-> 0]

NoLit == [k |-> "None", lo |-> 0, hi |-> 0]

accepts(lit, c) ==
    CASE lit.k = "Char" -> lit.lo = c
      [] lit.k = "Any" -> TRUE
      [] lit.k = "Range" -> lit.lo <= c /\ c <= lit.hi
      [] OTHER -> FALSE

Tok(t) == [t |-> t, lit |-> NoLit]

TokLit(lit) == [t |-> "Lit", lit |-> lit]

-----------------------------------------------------------------------------
(* nfa::Transition and the NFA arena *)

\* Option<State>::None
NoState == -1

\* Option<Label>::None
NoLabel == "None"

Label(lit, e) == [k |-> "Label", lit |-> lit, e1 |-> e, e2 |-> NoState, g |-> NoLabel]

Split(e1, e2) == [k |-> "Split", lit |-> NoLit, e1 |-> e1, e2 |-> e2, g |-> NoLabel]

Group(l, e) == [k |-> "Group", lit |-> NoLit, e1 |-> e, e2 |-> NoState, g |-> l]

Eof == [k |-> "Eof", lit |-> NoLit, e1 |-> NoState, e2 |-> NoState, g |-> NoLabel]

Accept == [k |-> "Accept", lit |-> NoLit, e1 |-> NoState, e2 |-> NoState, g |-> NoLabel]

\* `let v = e; F(v)`: e is evaluated once, before F
Bind(e, F(_)) == CHOOSE r \in {F(v) : v \in {e}} : TRUE

\* NFA::new
NFA_new == [transitions |-> <<Eof>>, start |-> 0, accept |-> 0, eof |-> 0]

\* self[state]
Tr(n, state) == n.transitions[state + 1]

new_label_state(n, lit) ==
    [n EXCEPT !.transitions = Append(@, Label(lit, Len(n.transitions)))]

\* new_split_state that fills a vacant second slot with the first
new_split_state_filled(n, e1, e2) ==
    [n EXCEPT !.transitions = Append(@, Split(e1, IF e2 = NoState THEN e1 ELSE e2))]

new_split_state(n, e1, e2) ==
    [n EXCEPT !.transitions = Append(@, Split(e1, e2))]

new_accept_state(n) ==
    [n EXCEPT !.transitions = Append(@, Accept)]

\* new_group_state without `self.start = s`
new_group_state_unentered(n, marker) ==
    [n EXCEPT !.transitions = Append(@, Group(marker, n.start))]

new_group_state(n, marker) ==
    [n EXCEPT !.transitions = Append(@, Group(marker, n.start)),
              !.start = Len(n.transitions)]

\* the state a constructor has just pushed
LastState(n) == Len(n.transitions) - 1

\* NFA::patch: every out state of the fragment is pointed at `to`; a Group,
\* Accept or Eof state in the out list panics
RECURSIVE patch(_, _, _)
patch(n, out, to) ==
    IF out = <<>> THEN [nfa |-> n, panic |-> FALSE]
    ELSE LET outp == out[1]
             t == Tr(n, outp)
         IN  CASE t.k = "Label" ->
                    Bind([n EXCEPT !.transitions[outp + 1].e1 = to],
                         LAMBDA m : patch(m, Tail(out), to))
               [] t.k = "Split" ->
                    Bind([n EXCEPT !.transitions[outp + 1].e2 = to],
                         LAMBDA m : patch(m, Tail(out), to))
               [] OTHER -> [nfa |-> n, panic |-> TRUE]


-----------------------------------------------------------------------------
(* NFA::compile: Thompson's construction over a postfix program *)

\* struct Frag
Frag(start, out) == [start |-> start, out |-> out]

\* the builder while it walks the postfix program: err = "" while no token
\* has failed; "panic" stands for an unwrap() or panic!() that aborts compile
Builder(n, stack, err, tok) == [nfa |-> n, stack |-> stack, err |-> err, tok |-> tok]

Panicked(b) == [b EXCEPT !.err = "panic"]

\* the arm of one postfix token
compile_token(b, tok) ==
    LET n == b.nfa
        stack == b.stack
        depth == Len(stack)
    IN  CASE tok.t = "KleeneS" ->
               IF depth = 0 THEN [b EXCEPT !.err = "EmptyStack", !.tok = "KleeneS"]
               ELSE LET e == Last(stack)
                        n1 == new_split_state(n, e.start, NoState)
                        s == LastState(n1)
                        p == patch(n1, e.out, s)
                    IN  IF p.panic THEN Panicked(b)
                        ELSE Builder(p.nfa, Append(Front(stack), Frag(s, <<s>>)), "", "")
          [] tok.t = "Union" ->
               IF depth < 2 THEN Panicked(b)
               ELSE LET e2 == stack[depth]
                        e1 == stack[depth - 1]
                        n1 == new_split_state(n, e1.start, e2.start)
                        s == LastState(n1)
                    IN  Builder(n1, Append(SubSeq(stack, 1, depth - 2),
                                           Frag(s, e1.out \o e2.out)), "", "")
          [] tok.t = "Concat" ->
               IF depth < 2 THEN Panicked(b)
               ELSE LET e2 == stack[depth]
                        e1 == stack[depth - 1]
                        p == patch(n, e1.out, e2.start)
                    IN  IF p.panic THEN Panicked(b)
                        ELSE Builder(p.nfa, Append(SubSeq(stack, 1, depth - 2),
                                                   Frag(e1.start, e2.out)), "", "")
          [] tok.t = "KleeneP" ->
               IF depth = 0 THEN Panicked(b)
               ELSE LET e == Last(stack)
                        n1 == new_split_state(n, e.start, NoState)
                        s == LastState(n1)
                        p == patch(n1, e.out, s)
                    IN  IF p.panic THEN Panicked(b)
                        ELSE Builder(p.nfa, Append(Front(stack), Frag(e.start, <<s>>)), "", "")
          [] tok.t = "Optional" ->
               IF depth = 0 THEN Panicked(b)
               ELSE LET e == Last(stack)
                        n1 == new_split_state(n, e.start, NoState)
                        s == LastState(n1)
                    IN  Builder(n1, Append(Front(stack), Frag(s, Append(e.out, s))), "", "")
          [] tok.t = "Range" -> [b EXCEPT !.err = "UnexpectedRange"]
          [] tok.t = "OParen" -> [b EXCEPT !.err = "UnexpectedOpenParen"]
          [] tok.t = "CParen" -> [b EXCEPT !.err = "UnexpectedCloseParen"]
          [] tok.t = "Eof" ->
               LET n1 == new_split_state(n, n.eof, NoState)
                   s == LastState(n1)
               IN  Builder(n1, Append(stack, Frag(s, <<>>)), "", "")
          [] tok.t = "Lit" ->
               LET n1 == new_label_state(n, tok.lit)
                   s == LastState(n1)
               IN  Builder(n1, Append(stack, Frag(s, <<s>>)), "", "")

\* for tok in postfix.tokens { ... }, left at the first token that fails
RECURSIVE compile_tokens(_, _)
compile_tokens(b, tokens) ==
    IF tokens = <<>> \/ b.err # "" THEN b
    ELSE Bind(compile_token(b, tokens[1]),
              LAMBDA next : compile_tokens(next, Tail(tokens)))

\* what compile returns: ok with the automaton, or the error (size is
\* NonUnaryStack's field, tok is EmptyStack's field)
CompileOk(n) == [ok |-> TRUE, nfa |-> n, err |-> "", size |-> 0, tok |-> ""]

CompileErr(err, size, tok) ==
    [ok |-> FALSE, nfa |-> NFA_new, err |-> err, size |-> size, tok |-> tok]

\* compile_finish without `nfa.patch(&e, nfa.accept)`
compile_finish_unpatched(b) ==
    IF Len(b.stack) = 1 THEN CompileOk([b.nfa EXCEPT !.start = b.stack[1].start])
    ELSE CompileErr("NonUnaryStack", IF b.stack = <<>> THEN 0 ELSE Len(b.stack) - 1, "")

\* the closing `if let (1, Some(e)) = (stack.len(), stack.pop())`: the else
\* arm reads stack.len() after the pop
compile_finish(b) ==
    LET depth == Len(b.stack)
    IN  IF depth = 1
        THEN LET e == b.stack[1]
                 p == patch([b.nfa EXCEPT !.start = e.start], e.out, b.nfa.accept)
             IN  IF p.panic THEN CompileErr("panic", 0, "") ELSE CompileOk(p.nfa)
        ELSE CompileErr("NonUnaryStack", IF depth = 0 THEN 0 ELSE depth - 1, "")

compile(postfix) ==
    LET n0 == new_accept_state(NFA_new)
        n1 == [n0 EXCEPT !.accept = LastState(n0)]
    IN  Bind(compile_tokens(Builder(n1, <<>>, "", ""), postfix),
             LAMBDA b : IF b.err # "" THEN CompileErr(b.err, 0, b.tok)
                        ELSE compile_finish(b))

-----------------------------------------------------------------------------
(* NFA::is_match: the two-frontier simulation *)

\* one entry of HashMap<Option<Label>, usize> / one (Option<Label>, usize)
Entry(l, size) == [l |-> l, n |-> size]

\* HashMap::insert on the map kept as a list of entries with distinct keys
\* (the list order carries no meaning: see MatchVecs)
RECURSIVE map_insert(_, _, _)
map_insert(m, l, size) ==
    IF m = <<>> THEN <<Entry(l, size)>>
    ELSE IF m[1].l = l THEN <<Entry(l, size)>> \o Tail(m)
    ELSE <<m[1]>> \o map_insert(Tail(m), l, size)

\* Step::new together with the list add_state pushes to and the matches map;
\* abort = "" while the call runs, "overflow" once add_state recurses without
\* end (the thread overflows its stack and the process aborts), "unreachable"
\* once step meets a Split or Group state in a frontier
Step_new(num_states) ==
    [current_char |-> 0,
     consumed |-> 0,
     step_list |-> [i \in 1..num_states |-> 0],
     step |-> 1,
     list |-> <<>>,
     matches |-> <<>>,
     abort |-> ""]

is_visited(sm, state) == sm.step_list[state + 1] = sm.step

\* set_visited that marks nothing
set_visited_never(sm, state) == sm

set_visited(sm, state) == [sm EXCEPT !.step_list[state + 1] = sm.step]

\* next_step that counts every scalar as one byte
next_step_one_byte(sm, current_char) ==
    [sm EXCEPT !.step = @ + 1,
               !.current_char = current_char,
               !.consumed = @ + 1]

next_step(sm, current_char) ==
    [sm EXCEPT !.step = @ + 1,
               !.current_char = current_char,
               !.consumed = @ + len_utf8(current_char)]

\* NFA::add_state. `path` holds the Split and Group states whose add_state
\* call is still on the call stack: they are never marked visited, so
\* entering one of them again repeats the same calls for ever.
RECURSIVE add_state(_, _, _, _, _)
add_state(n, sm, group, state, path) ==
    IF sm.abort # "" THEN sm
    ELSE IF is_visited(sm, state) THEN sm
    ELSE LET t == Tr(n, state)
         IN  CASE t.k = "Split" ->
                    IF state \in path THEN [sm EXCEPT !.abort = "overflow"]
                    ELSE LET on == path \cup {state}
                         IN  Bind(IF t.e1 # NoState
                                  THEN add_state(n, sm, group, t.e1, on) ELSE sm,
                                  LAMBDA s1 : IF t.e2 # NoState
                                              THEN add_state(n, s1, group, t.e2, on)
                                              ELSE s1)
               [] t.k = "Group" ->
                    IF state \in path THEN [sm EXCEPT !.abort = "overflow"]
                    ELSE add_state(n, sm, t.g, t.e1, path \cup {state})
               [] t.k \in {"Label", "Accept"} ->
                    LET s1 == [set_visited(sm, state) EXCEPT
                                   !.list = Append(@, <<group, state>>)]
                    IN  IF state = n.accept
                        THEN [s1 EXCEPT !.matches = map_insert(@, group, sm.consumed)]
                        ELSE s1
               [] t.k = "Eof" ->
                    [set_visited(sm, state) EXCEPT !.list = Append(@, <<group, state>>)]

\* NFA::step: sm.list is next_list
RECURSIVE step(_, _, _)
step(n, sm, current_list) ==
    IF current_list = <<>> \/ sm.abort # "" THEN sm
    ELSE LET group == current_list[1][1]
             state == current_list[1][2]
             t == Tr(n, state)
         IN  Bind(CASE t.k = "Label" ->
                         IF accepts(t.lit, sm.current_char)
                         THEN add_state(n, sm, group, t.e1, {})
                         ELSE sm
                    [] t.k \in {"Split", "Group"} -> [sm EXCEPT !.abort = "unreachable"]
                    [] OTHER -> sm,
                  LAMBDA s1 : step(n, s1, Tail(current_list)))

\* is_match that starts from the start state itself, without its closure
is_match_start_unclosed(n) ==
    [Step_new(Len(n.transitions)) EXCEPT !.list = <<<<NoLabel, n.start>>>>]

\* the start of is_match up to the first closure
is_match_start(n) ==
    Bind(Step_new(Len(n.transitions)),
         LAMBDA sm : add_state(n, sm, NoLabel, n.start, {}))

\* one pass of `for c in input.chars()`: afterwards sm.list is current_list
is_match_char(n, sm, c) ==
    Bind([next_step(sm, c) EXCEPT !.list = <<>>],
         LAMBDA s1 : step(n, s1, sm.list))

\* the Eof states left in current_list, each as (group, input.len())
RECURSIVE eof_matches(_, _, _)
eof_matches(n, current_list, len) ==
    IF current_list = <<>> THEN <<>>
    ELSE (IF current_list[1][2] = n.eof THEN <<Entry(current_list[1][1], len)>> ELSE <<>>)
         \o eof_matches(n, Tail(current_list), len)

\* what is_match returns: the entries of `matches` in the map's iteration
\* order, then `eofs` in list order; abort # "" when the call never returned
is_match_result(n, sm, inp) ==
    IF sm.abort # "" THEN [matches |-> <<>>, eofs |-> <<>>, abort |-> sm.abort]
    ELSE [matches |-> sm.matches,
          eofs |-> eof_matches(n, sm.list, str_len(inp)),
          abort |-> ""]

RECURSIVE is_match_loop(_, _, _)
is_match_loop(n, sm, rest) ==
    IF rest = <<>> \/ sm.abort # "" THEN sm
    ELSE Bind(is_match_char(n, sm, rest[1]),
              LAMBDA s1 : is_match_loop(n, s1, Tail(rest)))

is_match(n, inp) ==
    Bind(is_match_start(n),
         LAMBDA s0 : Bind(is_match_loop(n, s0, inp),
                          LAMBDA sm : is_match_result(n, sm, inp)))

\* all orders of the elements of a list
RECURSIVE Perms(_)
Perms(s) ==
    IF s = <<>> THEN {<<>>}
    ELSE UNION {{<<s[i]>> \o p :
                    p \in Perms(SubSeq(s, 1, i - 1) \o SubSeq(s, i + 1, Len(s)))} :
                i \in 1..Len(s)}

\* the Vec<Match> values one call can return: a HashMap iterates in an
\* unspecified order, the chained Eof matches follow in list order
MatchVecs(res) == {p \o res.eofs : p \in Perms(res.matches)}

\* Match::match_size
match_size(m) == m.n

-----------------------------------------------------------------------------
(* NFASet::build: the fusion of labelled automata *)

\* one edge of an appended automaton: into its accept state it leads to the
\* base's accept state, anywhere else it is offset by add_state
offset_edge(e, next_accept, base_accept, add_state_) ==
    IF e = next_accept THEN base_accept ELSE e + add_state_

\* the arm of one state in `for state in &mut next_nfa.transitions`
offset_transition(t, next_accept, base_accept, add_state_) ==
    CASE t.k = "Label" ->
           [t EXCEPT !.e1 = offset_edge(@, next_accept, base_accept, add_state_)]
      [] t.k = "Split" ->
           [t EXCEPT !.e1 = IF @ = NoState THEN NoState
                            ELSE offset_edge(@, next_accept, base_accept, add_state_),
                     !.e2 = IF @ = NoState THEN NoState
                            ELSE offset_edge(@, next_accept, base_accept, add_state_)]
      [] t.k = "Group" -> [t EXCEPT !.e1 = @ + add_state_]
      [] OTHER -> t

\* the body of `for (marker, mut next_nfa) in nfas`
build_append(base, marker, next) ==
    LET add_state_ == Len(base.transitions)
        next_nfa == new_group_state(next, marker)
        moved == [i \in 1..Len(next_nfa.transitions) |->
                     offset_transition(next_nfa.transitions[i], next_nfa.accept,
                                       base.accept, add_state_)]
        appended == [base EXCEPT !.transitions = @ \o moved]
        split == new_split_state(appended, base.start, next_nfa.start + add_state_)
    IN  [split EXCEPT !.start = LastState(split)]

RECURSIVE build_loop(_, _)
build_loop(base, nfas) ==
    IF nfas = <<>> THEN base
    ELSE Bind(build_append(base, nfas[1].label, nfas[1].nfa),
              LAMBDA fused : build_loop(fused, Tail(nfas)))

\* build without the error of the empty Vec
build_of_any(nfas) ==
    IF nfas = <<>> THEN [ok |-> TRUE, nfa |-> NFA_new]
    ELSE LET last == Last(nfas)
         IN  [ok |-> TRUE,
              nfa |-> Bind(new_group_state(last.nfa, last.label),
                           LAMBDA base : build_loop(base, Front(nfas)))]

\* NFASet::build on a Vec of (label, NFA): Vec::pop takes the base from the
\* end of the Vec, the loop then runs over what is left, from the front
build(nfas) ==
    IF nfas = <<>> THEN [ok |-> FALSE, nfa |-> NFA_new]
    ELSE LET last == Last(nfas)
         IN  [ok |-> TRUE,
              nfa |-> Bind(new_group_state(last.nfa, last.label),
                           LAMBDA base : build_loop(base, Front(nfas)))]

-----------------------------------------------------------------------------
(* The postfix programs and inputs the specifications range over *)

UnaryToks == {Tok("KleeneS"), Tok("KleeneP"), Tok("Optional")}

BinaryToks == {Tok("Concat"), Tok("Union")}

\* the well-formed postfix programs of exactly n tokens over the given leaves:
\* what Postfix::from_str yields for a fully parenthesized source
RECURSIVE Programs(_, _)
Programs(leaves, n) ==
    IF n <= 0 THEN {}
    ELSE IF n = 1 THEN {<<l>> : l \in leaves}
    ELSE {Append(p, u) : p \in Programs(leaves, n - 1), u \in UnaryToks}
         \cup UNION {{Append(p \o q, b) :
                         p \in Programs(leaves, i),
                         q \in Programs(leaves, n - 1 - i),
                         b \in BinaryToks} : i \in 1..(n - 2)}

ProgramsUpTo(leaves, n) == UNION {Programs(leaves, i) : i \in 1..n}

\* 'a' and the range 'b'..='é' (é takes two bytes), and `$`
PatLeaves == {TokLit(LitChar(97)), TokLit(LitRange(98, 233)), Tok("Eof")}

InputChars == {97, 98, 233}

\* the leaves that are literals
LitLeaves == {l \in PatLeaves : l.t = "Lit"}

HasEofTok(postfix) == \E i \in 1..Len(postfix) : postfix[i].t = "Eof"

\* the postfix program of the source `(P)$`
EofTerminated(body) == body \o <<Tok("Eof"), Tok("Concat")>>

\* the programs compiled on their own: every well-formed program of at most
\* MaxPat tokens, and every `$`-free one of that size terminated by `$`
Patterns ==
    ProgramsUpTo(PatLeaves, MaxPat)
    \cup {EofTerminated(body) : body \in ProgramsUpTo(LitLeaves, MaxPat)}

-----------------------------------------------------------------------------
(* The regular language of a postfix program, read off the program itself:  *)
(* each subexpression denotes the set of spans <<i, j>> of the input (in     *)
(* scalars) it matches; `$` matches the empty span at the end of the input.  *)

Compose(R, S) == {<<p[1][1], p[2][2]>> : p \in {q \in R \X S : q[1][2] = q[2][1]}}

\* R \cup R.R \cup ... : spans matched by one or more repetitions
RECURSIVE Plus(_, _)
Plus(R, k) == IF k = 0 THEN R ELSE LET P == Plus(R, k - 1) IN P \cup Compose(P, R)

Ident(w) == {<<i, i>> : i \in 0..Len(w)}

RECURSIVE Spans(_, _, _)
Spans(postfix, w, stack) ==
    IF postfix = <<>> THEN stack
    ELSE LET tok == postfix[1]
             d == Len(stack)
             new ==
               CASE tok.t = "Lit" ->
                      Append(stack, {<<i - 1, i>> : i \in {j \in 1..Len(w) : accepts(tok.lit, w[j])}})
                 [] tok.t = "Eof" -> Append(stack, {<<Len(w), Len(w)>>})
                 [] tok.t = "Concat" ->
                      Append(SubSeq(stack, 1, d - 2), Compose(stack[d - 1], stack[d]))
                 [] tok.t = "Union" ->
                      Append(SubSeq(stack, 1, d - 2), stack[d - 1] \cup stack[d])
                 [] tok.t = "KleeneS" ->
                      Append(Front(stack), Plus(stack[d], Len(w)) \cup Ident(w))
                 [] tok.t = "KleeneP" -> Append(Front(stack), Plus(stack[d], Len(w)))
                 [] tok.t = "Optional" -> Append(Front(stack), stack[d] \cup Ident(w))
         IN  Spans(Tail(postfix), w, new)

\* the byte lengths of the prefixes of w that the program matches
PrefixLens(postfix, w) ==
    {str_len(SubSeq(w, 1, z[2])) : z \in {x \in Spans(postfix, w, <<>>)[1] : x[1] = 0}}

-----------------------------------------------------------------------------
(* One pattern compiled and matched: NFA::compile, then NFA::is_match with   *)
(* one step of its loop per action                                           *)

Pat(label, postfix) == [label |-> label, postfix |-> postfix]

NoSim == Step_new(0)

NoResult == [matches |-> <<>>, eofs |-> <<>>, abort |-> "none"]

NoLexer == [input |-> <<>>, consumed |-> 0, sent_eof |-> FALSE, sent_error |-> FALSE]

NoItem == [kind |-> "Nothing", start |-> 0, end |-> 0, token |-> NoLabel, loc |-> 0]

NoHist == [eofs |-> 0, prevOk |-> NoItem, prevKind |-> "Nothing"]

NoParse == [ok |-> FALSE, tokens |-> <<>>, err |-> "Nothing", tok |-> Tok("Eof")]

\* no DFA constructed
NoDFA == [transitions |-> <<>>, start |-> 0, accept |-> {}]

\* nothing asked of the automaton yet
NoAnswer == [fixed |-> "Nothing", gen |-> "Nothing", words |-> {}, dfa |-> "Nothing"]

NoParsed == [res |-> NoParse, text |-> <<>>, again |-> NoParse, tokens |-> <<>>,
             compiled |-> "Nothing"]

LexerIdle ==
    /\ lexer = NoLexer
    /\ hasEof = FALSE
    /\ item = NoItem
    /\ hist = NoHist
    /\ calls = 0
    /\ parsed = NoParsed
    /\ answer = NoAnswer
    /\ dfa = NoDFA
    /\ threads = <<>>

InitNFA ==
    /\ pc = "compile"
    /\ pats \in {<<Pat(NoLabel, p)>> : p \in Patterns}
    /\ input \in SeqsUpTo(InputChars, MaxInput)
    /\ nfa = NFA_new
    /\ pos = 0
    /\ sim = NoSim
    /\ result = NoResult
    /\ LexerIdle

\* NFA::compile(postfix)
Compile ==
    /\ pc = "compile"
    /\ LET c == compile(pats[1].postfix)
       IN  /\ nfa' = c.nfa
           /\ pc' = IF c.ok THEN "ready" ELSE "failed"
    /\ UNCHANGED <<pats, input, pos, sim, result, lexer, hasEof, item, hist, calls, parsed, threads, answer,
                 dfa>>

\* is_match up to the closure of the start state
MatchStart ==
    /\ pc = "ready"
    /\ sim' = is_match_start(nfa)
    /\ pos' = 0
    /\ pc' = IF sim'.abort # "" THEN "aborted" ELSE "run"
    /\ result' = is_match_result(nfa, sim', input)
    /\ UNCHANGED <<pats, input, nfa, lexer, hasEof, item, hist, calls, parsed, threads, answer,
                 dfa>>

\* one pass of the loop over input.chars()
MatchStep ==
    /\ pc = "run"
    /\ pos < Len(input)
    /\ sim' = is_match_char(nfa, sim, input[pos + 1])
    /\ pos' = pos + 1
    /\ pc' = IF sim'.abort # "" THEN "aborted" ELSE "run"
    /\ result' = IF sim'.abort # "" THEN is_match_result(nfa, sim', input) ELSE result
    /\ UNCHANGED <<pats, input, nfa, lexer, hasEof, item, hist, calls, parsed, threads, answer,
                 dfa>>

\* the end of is_match: the matches and the Eof states are collected
MatchFinish ==
    /\ pc = "run"
    /\ pos = Len(input)
    /\ result' = is_match_result(nfa, sim, input)
    /\ pc' = "done"
    /\ UNCHANGED <<pats, input, nfa, pos, sim, lexer, hasEof, item, hist, calls, parsed, threads, answer,
                 dfa>>

NextNFA == Compile \/ MatchStart \/ MatchStep \/ MatchFinish

SpecNFA == InitNFA /\ [][NextNFA]_vars

-----------------------------------------------------------------------------
(* Claims about NFA::is_match on one compiled pattern *)

\* the pattern compiled in this behaviour
ThePostfix == pats[1].postfix

\* the Vec a longest-prefix matcher returns: nothing when no prefix of the
\* input is in the language, else the one unlabelled match of the longest
LongestPrefixVec(postfix, w) ==
    LET lens == PrefixLens(postfix, w)
    IN  IF lens = {} THEN <<>> ELSE <<Entry(NoLabel, Max(lens))>>

\* is_match has come to its end: it returned, or the process was aborted
MatchEnded == pc \in {"done", "aborted"}

\* C1: for every pattern without `$` that parses and compiles and every
\* input, is_match returns, and what it returns is non-empty iff some prefix
\* of the input is in the pattern's language, and is then exactly NoGroup(n)
\* with n the byte length of the longest such prefix.
C1_LongestPrefix ==
    (MatchEnded /\ ~HasEofTok(ThePostfix)) =>
        /\ pc = "done"
        /\ MatchVecs(result) = {LongestPrefixVec(ThePostfix, input)}

\* C1, for the calls that return: the returned matches are those of the
\* longest prefix in the language
C1_LongestPrefixWhenReturned ==
    (pc = "done" /\ ~HasEofTok(ThePostfix)) =>
        MatchVecs(result) = {LongestPrefixVec(ThePostfix, input)}

\* C1 at work: a multi-byte prefix is matched although a longer input follows
C1_Witness ==
    /\ pc = "done"
    /\ ~HasEofTok(ThePostfix)
    /\ result.matches = <<Entry(NoLabel, 3)>>
    /\ Len(input) = 3
    /\ str_len(input) = 4

\* the pattern is `(P)$` for a `$`-free P
IsEofTerminated(postfix) ==
    /\ Len(postfix) >= 3
    /\ SubSeq(postfix, Len(postfix) - 1, Len(postfix)) = <<Tok("Eof"), Tok("Concat")>>
    /\ ~HasEofTok(SubSeq(postfix, 1, Len(postfix) - 2))

\* P of the pattern `(P)$`
EofBody(postfix) == SubSeq(postfix, 1, Len(postfix) - 2)

\* the whole of w is in the language of the program
WholeInputIn(postfix, w) == <<0, Len(w)>> \in Spans(postfix, w, <<>>)[1]

\* what a pattern `(P)$` is to return on w
WholeInputVec(body, w) ==
    IF WholeInputIn(body, w) THEN <<Entry(NoLabel, str_len(w))>> ELSE <<>>

\* C2: for a pattern `P$`, is_match returns a non-empty collection iff the
\* whole input is in the language of P, and the length it then reports is
\* input.len(); for every other input it returns the empty collection.
C2_EofExclusive ==
    (MatchEnded /\ IsEofTerminated(ThePostfix)) =>
        /\ pc = "done"
        /\ MatchVecs(result) = {WholeInputVec(EofBody(ThePostfix), input)}

\* C2, for the calls that return
C2_EofExclusiveWhenReturned ==
    (pc = "done" /\ IsEofTerminated(ThePostfix)) =>
        MatchVecs(result) = {WholeInputVec(EofBody(ThePostfix), input)}

-----------------------------------------------------------------------------
(* Labelled patterns fused and matched: NFASet::build, then NFASet::is_match *)
(* (which is the fused NFA's is_match)                                       *)

SetLabels == <<"x", "y", "z", "u", "v">>

\* the Vecs of labelled programs handed to NFASet::build: the i-th carries
\* the i-th label
RECURSIVE LabelledSets(_, _)
LabelledSets(progs, n) ==
    IF n = 0 THEN {<<>>}
    ELSE LET shorter == LabelledSets(progs, n - 1)
         IN  shorter \cup {Append(s, Pat(SetLabels[n], p)) :
                              s \in {t \in shorter : Len(t) = n - 1}, p \in progs}

InitSet ==
    /\ pc = "build"
    /\ pats \in LabelledSets(ProgramsUpTo(PatLeaves, MaxSetPat), MaxSetSize)
    /\ input \in SeqsUpTo(InputChars, MaxInput)
    /\ nfa = NFA_new
    /\ pos = 0
    /\ sim = NoSim
    /\ result = NoResult
    /\ LexerIdle

\* vec![(label, NFA::try_from_language(pattern).unwrap()), ...]
RECURSIVE CompiledSet(_)
CompiledSet(ps) ==
    IF ps = <<>> THEN <<>>
    ELSE <<[label |-> ps[1].label, nfa |-> compile(ps[1].postfix).nfa]>>
         \o CompiledSet(Tail(ps))

\* NFASet::build(vec![...])
BuildSet ==
    /\ pc = "build"
    /\ LET b == build(CompiledSet(pats))
       IN  /\ nfa' = b.nfa
           /\ pc' = IF b.ok THEN "ready" ELSE "failed"
    /\ UNCHANGED <<pats, input, pos, sim, result, lexer, hasEof, item, hist, calls, parsed, threads, answer,
                 dfa>>

NextSet == BuildSet \/ MatchStart \/ MatchStep \/ MatchFinish

SpecSet == InitSet /\ [][NextSet]_vars

-----------------------------------------------------------------------------
(* Claims about NFASet::is_match *)

\* the labels of the set
LabelsOf(ps) == {ps[i].label : i \in 1..Len(ps)}

\* the program that carries label l
ProgramOf(ps, l) == ps[CHOOSE i \in 1..Len(ps) : ps[i].label = l].postfix

\* the returned Vec v holds at most one match per label, each a Group of a
\* label of the set whose length is the greatest byte length of a prefix of w
\* that the pattern of that label accepts
LongestPerLabel(ps, w, v) ==
    /\ \A i, j \in 1..Len(v) : v[i].l = v[j].l => i = j
    /\ \A i \in 1..Len(v) :
          /\ v[i].l \in LabelsOf(ps)
          /\ LET lens == PrefixLens(ProgramOf(ps, v[i].l), w)
             IN  lens # {} /\ v[i].n = Max(lens)

\* C3: whatever NFASet::is_match returns holds at most one Group(l, n) per
\* label l, and that n is the greatest byte length of a prefix of the input
\* accepted by the pattern labelled l.
C3_LongestPerLabel ==
    pc = "done" => \A v \in MatchVecs(result) : LongestPerLabel(pats, input, v)

-----------------------------------------------------------------------------
(* lexer::Token: the token trait, with the patterns impl_token! is given *)

\* the postfix program of r"(\n|\t|\ )*", the pattern of skip_reg
SkipPostfix ==
    <<TokLit(LitChar(10)), TokLit(LitChar(9)), TokLit(LitChar(32)),
      Tok("Union"), Tok("Union"), Tok("KleeneS")>>

\* SKIP_REG
skip_reg == compile(SkipPostfix).nfa

\* skip_chars that skips nothing
skip_chars_nothing(inp) == [abort |-> "", n |-> 0]

\* Iterator::max over the match sizes, 0 for no match; "abort" carries a call
\* of is_match that never returned
skip_chars(inp) ==
    Bind(is_match(skip_reg, inp),
         LAMBDA res :
             LET sizes == {match_size(m) : m \in Range(res.matches) \cup Range(res.eofs)}
             IN  [abort |-> res.abort, n |-> IF sizes = {} THEN 0 ELSE Max(sizes)])

\* max_by_key that returns the first of the elements of greatest size
max_by_key_first(v) ==
    LET big == Max({match_size(v[i]) : i \in 1..Len(v)})
    IN  v[CHOOSE i \in 1..Len(v) :
              /\ match_size(v[i]) = big
              /\ \A j \in 1..(i - 1) : match_size(v[j]) # big]

\* Iterator::max_by_key(match_size) on a non-empty Vec: the last of the
\* elements of greatest size
max_by_key(v) ==
    LET big == Max({match_size(v[i]) : i \in 1..Len(v)})
    IN  v[Max({i \in 1..Len(v) : match_size(v[i]) = big})]

\* Token::next_match on one Vec that get_token_set().is_match(input) can
\* return: None, Some((size, token_from_label(label))), or the unreachable!()
\* of a match without a group
next_match(v) ==
    IF v = <<>> THEN [kind |-> "None", size |-> 0, token |-> NoLabel]
    ELSE LET m == max_by_key(v)
         IN  IF m.l = NoLabel
             THEN [kind |-> "unreachable", size |-> 0, token |-> NoLabel]
             ELSE [kind |-> "Some", size |-> m.n, token |-> m.l]

-----------------------------------------------------------------------------
(* Claims about what a fused set returns *)

\* the labels the entries of a result carry
ResultLabels(res) ==
    {res.matches[i].l : i \in 1..Len(res.matches)}
    \cup {res.eofs[i].l : i \in 1..Len(res.eofs)}

\* C11: every match NFASet::is_match returns on a built set is a Group that
\* carries the label of one of the supplied patterns, never NoGroup, so
\* Token::next_match never reaches its unreachable!().
C11_AlwaysGrouped ==
    pc = "done" =>
        /\ ResultLabels(result) \subseteq LabelsOf(pats)
        /\ NoLabel \notin ResultLabels(result)
        /\ \A v \in MatchVecs(result) : next_match(v).kind # "unreachable"

\* C11 at work: a set of two patterns both of which match
C11_Witness ==
    /\ pc = "done"
    /\ Len(pats) = 2
    /\ ResultLabels(result) = LabelsOf(pats)

\* C12: NFASet::build returns an error for the empty collection and Ok for
\* every non-empty one.
C12_EmptyIsError ==
    pc # "build" => (pc = "failed" <=> pats = <<>>)

\* C12 at work: the empty collection was refused
C12_Witness ==
    /\ pc = "failed"
    /\ pats = <<>>

-----------------------------------------------------------------------------
(* lexer::Lexer *)

\* the token T::eof() supplies
EofToken == "Token::eof"

Lexer_new(inp) == [input |-> inp, consumed |-> 0, sent_eof |-> FALSE, sent_error |-> FALSE]

\* Option<Result<Spanned<T>, LexError>>
ItemNone == [kind |-> "None", start |-> 0, end |-> 0, token |-> NoLabel, loc |-> 0]

ItemOk(start, token, end) ==
    [kind |-> "Ok", start |-> start, end |-> end, token |-> token, loc |-> 0]

ItemErr(loc) == [kind |-> "Err", start |-> 0, end |-> 0, token |-> NoLabel, loc |-> loc]

\* lexer_skip without `self.consumed += skipped`
lexer_skip_uncounted(lx) ==
    Bind(skip_chars(lx.input).n,
         LAMBDA skipped : [lx EXCEPT !.input = str_from(@, skipped)])

\* the skip step that opens Lexer::next
lexer_skip(lx) ==
    Bind(skip_chars(lx.input).n,
         LAMBDA skipped : [lx EXCEPT !.input = str_from(@, skipped), !.consumed = @ + skipped])

\* lexer_emit with an error recovery that counts one byte for the scalar
\* it skips
lexer_emit_one_byte(lx, v) ==
    LET nm == next_match(v)
    IN  CASE nm.kind = "Some" ->
               [lexer |-> [lx EXCEPT !.consumed = @ + nm.size,
                                     !.input = str_from(@, nm.size)],
                item |-> ItemOk(lx.consumed, nm.token, lx.consumed + nm.size),
                abort |-> ""]
          [] nm.kind = "None" ->
               [lexer |-> IF lx.input # <<>>
                          THEN [lx EXCEPT !.input = Tail(@), !.consumed = @ + 1]
                          ELSE [lx EXCEPT !.sent_error = TRUE],
                item |-> ItemErr(lx.consumed),
                abort |-> ""]
          [] OTHER -> [lexer |-> lx, item |-> NoItem, abort |-> "unreachable"]

\* Lexer::next after the skip step, for one Vec v the token set's is_match can
\* return on the remaining input: the lexer afterwards and the item returned
lexer_emit(lx, v) ==
    LET nm == next_match(v)
    IN  CASE nm.kind = "Some" ->
               [lexer |-> [lx EXCEPT !.consumed = @ + nm.size,
                                     !.input = str_from(@, nm.size)],
                item |-> ItemOk(lx.consumed, nm.token, lx.consumed + nm.size),
                abort |-> ""]
          [] nm.kind = "None" ->
               [lexer |-> IF lx.input # <<>>
                          THEN [lx EXCEPT !.input = Tail(@),
                                          !.consumed = @ + len_utf8(lx.input[1])]
                          ELSE [lx EXCEPT !.sent_error = TRUE],
                item |-> ItemErr(lx.consumed),
                abort |-> ""]
          [] OTHER -> [lexer |-> lx, item |-> NoItem, abort |-> "unreachable"]

\* lexer_next without `self.sent_eof = true`
lexer_next_eof_unset(lx, n, eof) ==
    Bind(lexer_skip(lx), LAMBDA l1 :
        IF l1.sent_error \/ l1.sent_eof
        THEN {[lexer |-> l1, item |-> ItemNone, abort |-> ""]}
        ELSE IF l1.input = <<>>
        THEN {[lexer |-> l1,
               item |-> IF eof THEN ItemOk(l1.consumed, EofToken, l1.consumed)
                        ELSE ItemNone,
               abort |-> ""]}
        ELSE Bind(is_match(n, l1.input), LAMBDA res :
                 IF res.abort # ""
                 THEN {[lexer |-> l1, item |-> NoItem, abort |-> res.abort]}
                 ELSE {lexer_emit(l1, v) : v \in MatchVecs(res)}))

\* the outcomes of one Lexer::next call on lexer lx over token set n
lexer_next(lx, n, eof) ==
    Bind(lexer_skip(lx), LAMBDA l1 :
        IF l1.sent_error \/ l1.sent_eof
        THEN {[lexer |-> l1, item |-> ItemNone, abort |-> ""]}
        ELSE IF l1.input = <<>>
        THEN {[lexer |-> [l1 EXCEPT !.sent_eof = TRUE],
               item |-> IF eof THEN ItemOk(l1.consumed, EofToken, l1.consumed)
                        ELSE ItemNone,
               abort |-> ""]}
        ELSE Bind(is_match(n, l1.input), LAMBDA res :
                 IF res.abort # ""
                 THEN {[lexer |-> l1, item |-> NoItem, abort |-> res.abort]}
                 ELSE {lexer_emit(l1, v) : v \in MatchVecs(res)}))

\* the patterns of the token set: `$` and the literal 'a'
TokLeaves == {TokLit(LitChar(97)), Tok("Eof")}

\* the scalars of the lexer's input: 'a', ' ' and 'é' (two bytes)
LexChars == {97, 32, 233}

\* the Vecs of exactly k labelled programs of at most `budget` tokens in all
RECURSIVE SetsOfTotal(_, _, _)
SetsOfTotal(leaves, k, budget) ==
    IF k = 0 THEN {<<>>}
    ELSE UNION {{Append(s, Pat(SetLabels[k], p)) :
                    s \in SetsOfTotal(leaves, k - 1, budget - i),
                    p \in Programs(leaves, i)} : i \in 1..budget}

\* the token sets impl_token! is given: at least one pattern
TokenSets == UNION {SetsOfTotal(TokLeaves, k, MaxTokTotal) : k \in 1..MaxTokens}

\* a lexer constructed over one of the token sets `sets`
LexStart(sets) ==
    /\ pc = "lex"
    /\ pats \in sets
    /\ input \in SeqsUpTo(LexChars, MaxLexInput)
    /\ nfa = Bind(CompiledSet(pats), LAMBDA nfas : build(nfas).nfa)
    /\ pos = 0
    /\ sim = NoSim
    /\ result = NoResult
    /\ lexer = Lexer_new(input)
    /\ hasEof \in BOOLEAN
    /\ item = NoItem
    /\ hist = NoHist
    /\ calls = 0
    /\ parsed = NoParsed
    /\ answer = NoAnswer
    /\ dfa = NoDFA
    /\ threads = <<>>

InitLex == LexStart(TokenSets)

\* one call of Lexer::next; a call in which is_match overflows the stack or
\* reaches unreachable!() ends the process
LexNext ==
    /\ pc = "lex"
    /\ \E out \in lexer_next(lexer, nfa, hasEof) :
          /\ lexer' = out.lexer
          /\ item' = out.item
          /\ pc' = IF out.abort # "" THEN "aborted" ELSE "lex"
          /\ calls' = 1 - calls
          /\ hist' = [eofs |-> hist.eofs + (IF out.item.token = EofToken THEN 1 ELSE 0),
                      prevOk |-> IF item.kind = "Ok" THEN item ELSE hist.prevOk,
                      prevKind |-> item.kind]
    /\ UNCHANGED <<pats, input, nfa, pos, sim, result, hasEof, parsed, threads, answer,
                 dfa>>

NextLex == LexNext

SpecLex == InitLex /\ [][NextLex]_vars

\* the caller keeps calling next for as long as the process runs
InitLexFair == LexStart(SetsOfTotal(TokLeaves, 1, MaxLoopTok))

SpecLexFair == InitLexFair /\ [][NextLex]_vars /\ WF_vars(LexNext)

-----------------------------------------------------------------------------
(* Claims about Lexer::next *)

\* space, tab and newline: what the skip pattern is to skip
IsBlank(c) == c \in {32, 9, 10}

\* s without its leading blanks
RECURSIVE AfterBlanks(_)
AfterBlanks(s) == IF s # <<>> /\ IsBlank(s[1]) THEN AfterBlanks(Tail(s)) ELSE s

\* the part of the original input that starts at byte offset o
InputFrom(o) == str_from(input, o)

\* byte offset in the original input of the suffix s
OffsetOf(s) == str_len(input) - str_len(s)

\* the byte lengths of the prefixes of w some token pattern accepts
TokenPrefixLens(ps, w) == UNION {PrefixLens(ps[i].postfix, w) : i \in 1..Len(ps)}

\* `item` is a token matched by a pattern (not the end-of-input token)
IsMatchedToken == item.kind = "Ok" /\ item.token # EofToken

\* C4: whenever next returns Ok(span), span.end - span.start is the greatest
\* byte length of a prefix of the remaining input (after the skip step)
\* accepted by any token pattern, and span.token belongs to a pattern that
\* accepts that prefix.
C4_LongestToken ==
    IsMatchedToken =>
        LET rem == InputFrom(item.start)
            lens == TokenPrefixLens(pats, rem)
            size == item.end - item.start
        IN  /\ lens # {}
            /\ size = Max(lens)
            /\ item.token \in LabelsOf(pats)
            /\ size \in PrefixLens(ProgramOf(pats, item.token), rem)

\* C5: successful tokens have strictly increasing start offsets, and after a
\* call that returns an error the lexer's offset has advanced by at least one
\* scalar.
C5_MonotonicProgress ==
    /\ (item.kind = "Ok" /\ hist.prevOk.kind = "Ok") => item.start > hist.prevOk.start
    /\ item.kind = "Err" =>
          /\ InputFrom(item.loc) # <<>>
          /\ lexer.consumed >= item.loc + len_utf8(InputFrom(item.loc)[1])

\* C6: for every token set and every input, repeated calls of next
\* eventually return None.
C6_EventuallyNone == <>(item.kind = "None")

\* C7: once next has returned None or the end-of-input token, every later
\* call returns None; the end-of-input token is emitted at most once.
C7_NoneForEver ==
    [][/\ (item.kind = "None" \/ item.token = EofToken) => item'.kind = "None"
       /\ hist'.eofs <= 1]_vars

\* C7 at work: None was returned twice in a row after the end-of-input token
C7_Witness ==
    /\ item.kind = "None"
    /\ hist.prevKind = "None"
    /\ hist.eofs = 1
    /\ lexer.sent_eof

\* C8: when the remaining input after skipping is empty and no terminal flag
\* is set, next sets sent_eof and returns the end-of-input token in a
\* zero-length span at the input's length if the trait supplies one, None if
\* it does not.
C8_EofToken ==
    [][(/\ AfterBlanks(lexer.input) = <<>>
        /\ ~lexer.sent_eof
        /\ ~lexer.sent_error)
       => /\ lexer'.sent_eof
          /\ lexer'.consumed = str_len(input)
          /\ item' = IF hasEof
                     THEN ItemOk(str_len(input), EofToken, str_len(input))
                     ELSE ItemNone]_vars

\* C8 at work: the end-of-input token was emitted after trailing blanks
C8_Witness ==
    /\ item = ItemOk(str_len(input), EofToken, str_len(input))
    /\ hist.prevOk.kind = "Ok"
    /\ hist.prevOk.end < str_len(input)
    /\ lexer.sent_eof

\* C9: when no token pattern matches at the offset o reached by the skip
\* step, next returns Err(UnrecognizedToken(o)) and advances the input by
\* exactly the one scalar at o.
C9_UnrecognizedToken ==
    [][LET rem == AfterBlanks(lexer.input)
       IN  (/\ rem # <<>>
            /\ ~lexer.sent_eof
            /\ ~lexer.sent_error
            /\ TokenPrefixLens(pats, rem) = {})
           => /\ item' = ItemErr(OffsetOf(rem))
              /\ lexer'.input = Tail(rem)
              /\ lexer'.consumed = OffsetOf(rem) + len_utf8(rem[1])]_vars

\* C9, for the calls in which the token set's is_match returns and reports
\* no match
C9_UnrecognizedTokenWhenReturned ==
    [][LET rem == AfterBlanks(lexer.input)
       IN  (/\ rem # <<>>
            /\ ~lexer.sent_eof
            /\ ~lexer.sent_error
            /\ is_match(nfa, rem) = [matches |-> <<>>, eofs |-> <<>>, abort |-> ""])
           => /\ item' = ItemErr(OffsetOf(rem))
              /\ lexer'.input = Tail(rem)
              /\ lexer'.consumed = OffsetOf(rem) + len_utf8(rem[1])]_vars

\* C10: consumed plus the length of the remaining input is the length of the
\* original input (the remaining input is its suffix at `consumed`); every
\* span has start <= end <= input length; each span starts at or after the
\* end of the span before it.
C10_SpansInOrder ==
    /\ lexer.consumed + str_len(lexer.input) = str_len(input)
    /\ lexer.input = InputFrom(lexer.consumed)
    /\ item.kind = "Ok" => item.start <= item.end /\ item.end <= str_len(input)
    /\ (item.kind = "Ok" /\ hist.prevOk.kind = "Ok") => item.start >= hist.prevOk.end

\* C10 at work: a second non-empty span that starts where the first ended
C10_Witness ==
    /\ item.kind = "Ok"
    /\ hist.prevOk.kind = "Ok"
    /\ hist.prevOk.end > hist.prevOk.start
    /\ item.start = hist.prevOk.end
    /\ item.end > item.start
    /\ lexer.consumed = str_len(input)

-----------------------------------------------------------------------------
(* parse::Lexer: the surface lexer of pattern sources. A source is the list *)
(* of its scalars.                                                          *)

\* char::is_whitespace
is_whitespace(c) == c \in {9, 10, 11, 12, 13, 32, 133, 160}

\* the scalars the parser reads as themselves: ( ) | * + ? - $ \ and, after
\* a backslash, n t r
ChOParen == 40
ChCParen == 41
ChUnion == 124
ChKleeneS == 42
ChKleeneP == 43
ChOptional == 63
ChRange == 45
ChEof == 36
ChBackslash == 92
ChN == 110
ChT == 116
ChR == 114

\* Lexer::new
Lexer_parse_new(src) == [input |-> src, queue |-> <<>>]

\* `self.input` with its leading whitespace consumed
RECURSIVE skip_whitespace(_)
skip_whitespace(inp) ==
    IF inp # <<>> /\ is_whitespace(inp[1]) THEN skip_whitespace(Tail(inp)) ELSE inp

\* the literal an escape `\c` stands for
escaped_lit(c) ==
    CASE c = ChN -> LitChar(10)
      [] c = ChT -> LitChar(9)
      [] c = ChR -> LitChar(13)
      [] OTHER -> LitChar(c)

\* the `match next { ... }` of peek on the scalar c with `rest` after it: the
\* token, needs_concat, what is left of the input, and whether the arm
\* panicked
peek_token(c, rest) ==
    CASE c = ChOParen -> [tok |-> Tok("OParen"), needs_concat |-> FALSE, rest |-> rest, panic |-> FALSE]
      [] c = ChUnion -> [tok |-> Tok("Union"), needs_concat |-> FALSE, rest |-> rest, panic |-> FALSE]
      [] c = ChRange -> [tok |-> Tok("Range"), needs_concat |-> FALSE, rest |-> rest, panic |-> FALSE]
      [] c = ChCParen -> [tok |-> Tok("CParen"), needs_concat |-> TRUE, rest |-> rest, panic |-> FALSE]
      [] c = ChKleeneS -> [tok |-> Tok("KleeneS"), needs_concat |-> TRUE, rest |-> rest, panic |-> FALSE]
      [] c = ChKleeneP -> [tok |-> Tok("KleeneP"), needs_concat |-> TRUE, rest |-> rest, panic |-> FALSE]
      [] c = ChOptional -> [tok |-> Tok("Optional"), needs_concat |-> TRUE, rest |-> rest, panic |-> FALSE]
      [] c = ChEof -> [tok |-> Tok("Eof"), needs_concat |-> FALSE, rest |-> rest, panic |-> FALSE]
      [] c = ChBackslash ->
           IF rest # <<>>
           THEN [tok |-> TokLit(escaped_lit(rest[1])), needs_concat |-> TRUE,
                 rest |-> Tail(rest), panic |-> FALSE]
           ELSE [tok |-> Tok("Eof"), needs_concat |-> FALSE, rest |-> rest, panic |-> TRUE]
      [] OTHER -> [tok |-> TokLit(LitChar(c)), needs_concat |-> TRUE, rest |-> rest, panic |-> FALSE]

\* the scalars before which no Concat is inserted
NoConcatBefore == {ChCParen, ChKleeneS, ChKleeneP, ChUnion, ChOptional, ChRange}

\* Lexer::peek: the lexer afterwards, whether a token is at the front of its
\* queue (`some`), and whether the call panicked
peek(lx) ==
    IF lx.queue # <<>> THEN [lexer |-> lx, some |-> TRUE, panic |-> FALSE]
    ELSE LET inp == skip_whitespace(lx.input)
         IN  IF inp = <<>>
             THEN [lexer |-> [lx EXCEPT !.input = <<>>], some |-> FALSE, panic |-> FALSE]
             ELSE Bind(peek_token(inp[1], Tail(inp)), LAMBDA m :
                 IF m.panic
                 THEN [lexer |-> [lx EXCEPT !.input = <<>>], some |-> FALSE, panic |-> TRUE]
                 ELSE LET after == IF m.needs_concat THEN skip_whitespace(m.rest)
                                   ELSE m.rest
                          queue == IF m.needs_concat /\ after # <<>>
                                      /\ after[1] \notin NoConcatBefore
                                   THEN <<m.tok, Tok("Concat")>>
                                   ELSE <<m.tok>>
                      IN  [lexer |-> [input |-> after, queue |-> queue],
                           some |-> TRUE, panic |-> FALSE])

\* Iterator::next of the surface lexer: the lexer afterwards and the token
\* (`some` is FALSE for None)
next(lx) ==
    Bind(peek(lx), LAMBDA p :
        IF p.some
        THEN [lexer |-> [p.lexer EXCEPT !.queue = Tail(@)], some |-> TRUE,
              tok |-> p.lexer.queue[1], panic |-> FALSE]
        ELSE [lexer |-> p.lexer, some |-> FALSE, tok |-> Tok("Eof"), panic |-> p.panic])

\* the tokens the lexer yields when it is iterated to its end
RECURSIVE collect(_, _)
collect(lx, acc) ==
    Bind(next(lx), LAMBDA r :
        IF r.panic THEN [tokens |-> acc, panic |-> TRUE]
        ELSE IF ~r.some THEN [tokens |-> acc, panic |-> FALSE]
        ELSE collect(r.lexer, Append(acc, r.tok)))

-----------------------------------------------------------------------------
(* parse::Token precedences and parse::Postfix                              *)

NoPrec == -1

\* infix_precedence with Union binding tighter than Concat
infix_precedence_union_tighter(tok) ==
    CASE tok.t = "Range" -> <<12, 11>>
      [] tok.t = "Concat" -> <<2, 1>>
      [] tok.t = "Union" -> <<4, 3>>
      [] OTHER -> <<NoPrec, NoPrec>>

\* Token::infix_precedence: <<left, right>>, or NoPrec for None
infix_precedence(tok) ==
    CASE tok.t = "Range" -> <<12, 11>>
      [] tok.t = "Concat" -> <<4, 3>>
      [] tok.t = "Union" -> <<2, 1>>
      [] OTHER -> <<NoPrec, NoPrec>>

\* Token::postfix_precedence, or NoPrec for None
postfix_precedence(tok) ==
    CASE tok.t \in {"KleeneP", "KleeneS"} -> 10
      [] tok.t = "Optional" -> 9
      [] OTHER -> NoPrec

\* the results of parse_expr and of from_str
ParseOk(tokens, lx) ==
    [ok |-> TRUE, tokens |-> tokens, err |-> "", tok |-> Tok("Eof"), lexer |-> lx]
ParseErr(err, tok, lx) ==
    [ok |-> FALSE, tokens |-> <<>>, err |-> err, tok |-> tok, lexer |-> lx]
ParsePanic(lx) == ParseErr("panic", Tok("Eof"), lx)

\* fuse_range without the fusion: the Range token is kept as an operator
fuse_range_kept(lhs, rhs, lx) == ParseOk(Append(lhs \o rhs, Tok("Range")), lx)

\* fuse_range without the look at what the two popped tokens are
fuse_range_unchecked(lhs, rhs, lx) ==
    ParseOk(Append(Front(lhs), TokLit(LitRange(Last(lhs).lit.lo, Last(rhs).lit.lo))), lx)

\* the arm `if token == Token::Range` of parse_expr: the last tokens of the
\* two sides are fused into one range literal
fuse_range(lhs, rhs, lx) ==
    LET left == Last(lhs)
        right == Last(rhs)
    IN  IF /\ left.t = "Lit" /\ left.lit.k = "Char"
           /\ right.t = "Lit" /\ right.lit.k = "Char"
        THEN ParseOk(Append(Front(lhs), TokLit(LitRange(left.lit.lo, right.lit.lo))), lx)
        ELSE ParseErr("InvalidRange", Tok("Range"), lx)

\* parse_expr(input, prec): parse_prefix is the `match lhs` on the first
\* token, parse_loop the `while let Some(token) = input.peek()` after it
RECURSIVE parse_expr(_, _), parse_loop(_, _, _)
parse_expr(lx, prec) ==
    Bind(next(lx), LAMBDA n :
        IF n.panic THEN ParsePanic(n.lexer)
        ELSE IF ~n.some THEN ParseErr("UnexpectedEof", Tok("Eof"), n.lexer)
        ELSE IF n.tok.t \in {"Lit", "Eof"} THEN parse_loop(n.lexer, <<n.tok>>, prec)
        ELSE IF n.tok.t = "OParen"
        THEN Bind(parse_expr(n.lexer, 0), LAMBDA e :
                 IF ~e.ok THEN e
                 ELSE Bind(next(e.lexer), LAMBDA c :
                          IF c.panic THEN ParsePanic(c.lexer)
                          ELSE IF c.some /\ c.tok.t = "CParen"
                          THEN parse_loop(c.lexer, e.tokens, prec)
                          ELSE ParseErr("Unmatched", Tok("OParen"), c.lexer)))
        ELSE ParseErr("InvalidPrefix", n.tok, n.lexer))

parse_loop(lx, lhs, prec) ==
    Bind(peek(lx), LAMBDA p :
        IF p.panic THEN ParsePanic(p.lexer)
        ELSE IF ~p.some THEN ParseOk(lhs, p.lexer)
        ELSE LET token == p.lexer.queue[1]
                 taken == [p.lexer EXCEPT !.queue = Tail(@)]
             IN  IF postfix_precedence(token) # NoPrec
                 THEN IF postfix_precedence(token) < prec THEN ParseOk(lhs, p.lexer)
                      ELSE parse_loop(taken, Append(lhs, token), prec)
                 ELSE IF infix_precedence(token)[1] # NoPrec
                 THEN IF infix_precedence(token)[1] < prec THEN ParseOk(lhs, p.lexer)
                      ELSE Bind(parse_expr(taken, infix_precedence(token)[2]), LAMBDA r :
                               IF ~r.ok THEN r
                               ELSE IF token.t = "Range"
                               THEN Bind(fuse_range(lhs, r.tokens, r.lexer), LAMBDA f :
                                        IF f.ok THEN parse_loop(f.lexer, f.tokens, prec)
                                        ELSE f)
                               ELSE parse_loop(r.lexer, Append(lhs \o r.tokens, token), prec))
                 ELSE ParseOk(lhs, p.lexer))

\* the Result<Postfix, ParseError> a parse_expr result r is returned as
Returned(r) == [ok |-> r.ok, tokens |-> r.tokens, err |-> r.err, tok |-> r.tok]

\* from_str without the look at what is left of the input
from_str_any_rest(src) == Returned(parse_expr(Lexer_parse_new(src), 0))

\* Postfix::from_str
from_str(src) ==
    Bind(parse_expr(Lexer_parse_new(src), 0), LAMBDA e :
        IF ~e.ok THEN Returned(e)
        ELSE Bind(next(e.lexer), LAMBDA n :
                 IF n.panic THEN Returned(ParsePanic(n.lexer))
                 ELSE IF n.some THEN Returned(ParseErr("ParsingStopped", n.tok, n.lexer))
                 ELSE Returned(ParseOk(e.tokens, n.lexer))))

-----------------------------------------------------------------------------
(* Display of parse::Lit, parse::Token and parse::Postfix                   *)

\* the lower-case hexadecimal digits of n, without leading zeros
RECURSIVE hex(_)
hex(n) ==
    LET d == n % 16
        digit == IF d < 10 THEN 48 + d ELSE 87 + d
    IN  IF n < 16 THEN <<digit>> ELSE Append(hex(n \div 16), digit)

\* char::escape_default
escape_default(c) ==
    CASE c = 9 -> <<ChBackslash, ChT>>
      [] c = 13 -> <<ChBackslash, ChR>>
      [] c = 10 -> <<ChBackslash, ChN>>
      [] c \in {39, 34, ChBackslash} -> <<ChBackslash, c>>
      [] c >= 32 /\ c <= 126 /\ c \notin {39, 34, ChBackslash} -> <<c>>
      [] OTHER -> <<ChBackslash, 117, 123>> \o hex(c) \o <<125>>

\* Display for Lit
fmt_Lit(lit) ==
    CASE lit.k = "Any" -> <<46>>
      [] lit.k = "Char" ->
           IF lit.lo \in {ChKleeneP, ChRange, ChKleeneS, ChOptional, ChOParen, ChCParen}
           THEN <<ChBackslash, lit.lo>>
           ELSE escape_default(lit.lo)
      [] OTHER -> <<ChOParen, lit.lo, ChRange, lit.hi, ChCParen>>

\* Display for Token
fmt_Token(tok) ==
    CASE tok.t = "OParen" -> <<ChOParen>>
      [] tok.t = "CParen" -> <<ChCParen>>
      [] tok.t = "KleeneS" -> <<ChKleeneS>>
      [] tok.t = "KleeneP" -> <<ChKleeneP>>
      [] tok.t = "Concat" -> <<>>
      [] tok.t = "Union" -> <<ChUnion>>
      [] tok.t = "Optional" -> <<ChOptional>>
      [] tok.t = "Range" -> <<ChRange>>
      [] tok.t = "Eof" -> <<ChEof>>
      [] OTHER -> fmt_Lit(tok.lit)

\* the stack of Display for Postfix after the tokens from index i on; a pop
\* of the empty stack panics
RECURSIVE fmt_stack(_, _, _)
fmt_stack(tokens, i, stack) ==
    IF i > Len(tokens) THEN [stack |-> stack, panic |-> FALSE]
    ELSE LET token == tokens[i]
         IN  IF token.t \in {"Eof", "OParen", "CParen", "Lit"}
             THEN fmt_stack(tokens, i + 1, Append(stack, fmt_Token(token)))
             ELSE IF token.t \in {"Optional", "KleeneS", "KleeneP"}
             THEN IF stack = <<>> THEN [stack |-> stack, panic |-> TRUE]
                  ELSE fmt_stack(tokens, i + 1,
                           Append(Front(stack),
                               <<ChOParen>> \o Last(stack) \o fmt_Token(token) \o <<ChCParen>>))
             ELSE IF Len(stack) < 2 THEN [stack |-> stack, panic |-> TRUE]
                  ELSE fmt_stack(tokens, i + 1,
                           Append(Front(Front(stack)),
                               <<ChOParen>> \o Last(Front(stack)) \o fmt_Token(token)
                                   \o Last(stack) \o <<ChCParen>>))

\* Display for Postfix: the text written, the top of the stack
fmt_Postfix(tokens) ==
    Bind(fmt_stack(tokens, 1, <<>>), LAMBDA r :
        [text |-> IF r.stack = <<>> THEN <<>> ELSE Last(r.stack), panic |-> r.panic])

-----------------------------------------------------------------------------
(* The surface parser as a state machine: a source is parsed, the postfix   *)
(* is displayed and compiled, the displayed text is parsed again; the       *)
(* surface lexer alone is iterated to its end.                              *)

\* the scalars of the sources: a ( ) | * ? - $ \ and the space
SrcChars == {97, ChOParen, ChCParen, ChUnion, ChKleeneS, ChOptional, ChRange, ChEof,
             ChBackslash, 32}

InitParse ==
    /\ pc = "parse"
    /\ pats = <<>>
    /\ input \in SeqsUpTo(SrcChars, MaxSrc)
    /\ nfa = NFA_new
    /\ pos = 0
    /\ sim = NoSim
    /\ result = NoResult
    /\ LexerIdle

\* input.parse::<Postfix>()
Parse ==
    /\ pc = "parse"
    /\ LET r == from_str(input)
       IN  /\ parsed' = [parsed EXCEPT !.res = r]
           /\ pc' = IF r.ok THEN "parsed" ELSE IF r.err = "panic" THEN "panicked"
                    ELSE "rejected"
    /\ UNCHANGED <<pats, input, nfa, pos, sim, result, lexer, hasEof, item, hist, calls, threads, answer,
                 dfa>>

\* postfix.to_string()
Show ==
    /\ pc = "parsed"
    /\ LET d == fmt_Postfix(parsed.res.tokens)
       IN  /\ parsed' = [parsed EXCEPT !.text = d.text]
           /\ pc' = IF d.panic THEN "panicked" ELSE "shown"
    /\ UNCHANGED <<pats, input, nfa, pos, sim, result, lexer, hasEof, item, hist, calls, threads, answer,
                 dfa>>

\* the displayed text is parsed
Reparse ==
    /\ pc = "shown"
    /\ LET r == from_str(parsed.text)
       IN  /\ parsed' = [parsed EXCEPT !.again = r]
           /\ pc' = IF r.err = "panic" THEN "panicked" ELSE "reparsed"
    /\ UNCHANGED <<pats, input, nfa, pos, sim, result, lexer, hasEof, item, hist, calls, threads, answer,
                 dfa>>

\* NFA::compile of the parsed postfix
CompileParsed ==
    /\ pc = "parsed"
    /\ LET c == compile(parsed.res.tokens)
       IN  /\ nfa' = c.nfa
           /\ parsed' = [parsed EXCEPT !.compiled = IF c.ok THEN "Ok" ELSE c.err]
           /\ pc' = "compiled"
    /\ UNCHANGED <<pats, input, pos, sim, result, lexer, hasEof, item, hist, calls, threads, answer,
                 dfa>>

\* Lexer::new(input).collect()
Collect ==
    /\ pc = "parse"
    /\ LET c == collect(Lexer_parse_new(input), <<>>)
       IN  /\ parsed' = [parsed EXCEPT !.tokens = c.tokens]
           /\ pc' = IF c.panic THEN "panicked" ELSE "collected"
    /\ UNCHANGED <<pats, input, nfa, pos, sim, result, lexer, hasEof, item, hist, calls, threads, answer,
                 dfa>>

NextParse == Parse \/ Show \/ Reparse \/ CompileParsed \/ Collect

SpecParse == InitParse /\ [][NextParse]_vars

\* The sources `L-R` of one range operator between two written operands.
\* An operand is its text, whether it is exactly one single-character
\* literal, and that literal's scalar.
Operand(text, single, c) == [text |-> text, single |-> single, c |-> c]

\* c, (c), c after a blank, and the escaped literal \*
SingleOperands(c) ==
    {Operand(<<c>>, TRUE, c), Operand(<<ChOParen, c, ChCParen>>, TRUE, c),
     Operand(<<32, c>>, TRUE, c), Operand(<<ChBackslash, ChKleeneS>>, TRUE, ChKleeneS)}

\* $, ($), (c*), (cc), (c|c), (c-c), c-c
OtherOperands(c) ==
    {Operand(<<ChEof>>, FALSE, 0), Operand(<<ChOParen, ChEof, ChCParen>>, FALSE, 0),
     Operand(<<ChOParen, c, ChKleeneS, ChCParen>>, FALSE, 0),
     Operand(<<ChOParen, c, c, ChCParen>>, FALSE, 0),
     Operand(<<ChOParen, c, ChUnion, c, ChCParen>>, FALSE, 0),
     Operand(<<ChOParen, c, ChRange, c, ChCParen>>, FALSE, 0),
     Operand(<<c, ChRange, c>>, FALSE, 0)}

\* the left operands also end in a postfix operator: c*, c?
LeftOperands ==
    SingleOperands(97) \cup OtherOperands(97)
    \cup {Operand(<<97, ChKleeneS>>, FALSE, 0), Operand(<<97, ChOptional>>, FALSE, 0)}

RightOperands == SingleOperands(122) \cup OtherOperands(122)

RangeSource(l, r) == l.text \o <<ChRange>> \o r.text

InitRange ==
    /\ pc = "parse"
    /\ pats = <<>>
    /\ input \in {RangeSource(l, r) : l \in LeftOperands, r \in RightOperands}
    /\ nfa = NFA_new
    /\ pos = 0
    /\ sim = NoSim
    /\ result = NoResult
    /\ LexerIdle

SpecRange == InitRange /\ [][NextParse]_vars

-----------------------------------------------------------------------------
(* Claims about the surface parser *)

RECURSIVE Operands(_, _, _)
Operands(tokens, i, depth) ==
    IF i > Len(tokens) THEN depth
    ELSE IF tokens[i].t \in {"KleeneS", "KleeneP", "Optional"}
    THEN IF depth < 1 THEN -1 ELSE Operands(tokens, i + 1, depth)
    ELSE IF tokens[i].t \in {"Concat", "Union"}
    THEN IF depth < 2 THEN -1 ELSE Operands(tokens, i + 1, depth - 1)
    ELSE Operands(tokens, i + 1, depth + 1)

\* C14: for every source on which parsing succeeds, the postfix holds no
\* OParen, CParen or Range token, evaluates to exactly one operand without
\* underflow, and NFA::compile returns Ok on it without panicking.
C14_WellFormedPostfix ==
    parsed.res.ok =>
        /\ \A i \in 1..Len(parsed.res.tokens) :
               parsed.res.tokens[i].t \notin {"OParen", "CParen", "Range"}
        /\ Operands(parsed.res.tokens, 1, 0) = 1
        /\ pc = "compiled" => parsed.compiled = "Ok"

C14_Witness ==
    /\ pc = "compiled"
    /\ parsed.compiled = "Ok"
    /\ \E i \in 1..Len(parsed.res.tokens) : parsed.res.tokens[i].lit.k = "Range"
    /\ \E i \in 1..Len(parsed.res.tokens) : parsed.res.tokens[i].t = "Concat"

\* the token the lexer makes of an operator scalar or of `)`
OperatorToken(c) ==
    CASE c = ChCParen -> Tok("CParen")
      [] c = ChKleeneS -> Tok("KleeneS")
      [] c = ChKleeneP -> Tok("KleeneP")
      [] c = ChUnion -> Tok("Union")
      [] c = ChOptional -> Tok("Optional")
      [] OTHER -> Tok("Range")

OperatorChars == {ChCParen, ChKleeneS, ChKleeneP, ChUnion, ChOptional, ChRange}

\* the beginnings of a source after which the parser is in prefix position:
\* nothing, `(`, `((`, `a|`, `a-`, and a blank after nothing or after `(`
PrefixPositions == {<<>>, <<ChOParen>>, <<ChOParen, ChOParen>>, <<97, ChUnion>>,
                    <<97, ChRange>>, <<32>>, <<ChOParen, 32>>}

StartsWith(s, p) == Len(p) <= Len(s) /\ SubSeq(s, 1, Len(p)) = p

\* C15: an empty or whitespace-only source yields UnexpectedEof; a `)` left
\* over after a complete top-level expression yields ParsingStopped(`)`); a
\* `(` followed by a complete expression and the end of the source yields
\* Unmatched("("); an operator or `)` in prefix position yields
\* InvalidPrefix of that token.
C15_ErrorKinds ==
    parsed.res # NoParse =>
        /\ (\A i \in 1..Len(input) : is_whitespace(input[i])) =>
               parsed.res = [ok |-> FALSE, tokens |-> <<>>, err |-> "UnexpectedEof",
                             tok |-> Tok("Eof")]
        /\ \A i \in 1..Len(input) :
               input[i] = ChCParen /\ from_str(SubSeq(input, 1, i - 1)).ok =>
                   parsed.res = [ok |-> FALSE, tokens |-> <<>>, err |-> "ParsingStopped",
                                 tok |-> Tok("CParen")]
        /\ Len(input) > 0 /\ input[1] = ChOParen /\ from_str(Tail(input)).ok =>
               parsed.res = [ok |-> FALSE, tokens |-> <<>>, err |-> "Unmatched",
                             tok |-> Tok("OParen")]
        /\ \A p \in PrefixPositions :
               /\ StartsWith(input, p)
               /\ Len(input) > Len(p)
               /\ input[Len(p) + 1] \in OperatorChars
               => parsed.res = [ok |-> FALSE, tokens |-> <<>>, err |-> "InvalidPrefix",
                                tok |-> OperatorToken(input[Len(p) + 1])]

C15_Witness ==
    /\ pc = "rejected"
    /\ parsed.res.err = "ParsingStopped"
    /\ Len(input) = MaxSrc
    /\ input[4] = ChCParen
    /\ from_str(SubSeq(input, 1, 3)).ok
    /\ ChUnion \in Range(input)

\* the number of backslashes at the end of s
RECURSIVE TrailingBackslashes(_)
TrailingBackslashes(s) ==
    IF s # <<>> /\ Last(s) = ChBackslash THEN 1 + TrailingBackslashes(Front(s)) ELSE 0

\* C16: a source whose last scalar is a lone backslash (one that no earlier
\* backslash escapes) makes the parser return Err; the parse does not abort.
C16_TrailingBackslashIsErr ==
    parsed.res # NoParse /\ TrailingBackslashes(input) % 2 = 1 =>
        /\ ~parsed.res.ok
        /\ parsed.res.err # "panic"

\* The source of an expression written with the fewest parentheses the
\* claimed precedences allow: a literal or a range `c1-c2` is an atom
\* (level 4), a postfix operator (level 3) takes an atom or a postfix
\* expression bare, a concatenation (level 2) takes bare whatever binds
\* tighter than itself, a union (level 1) likewise.
Written(text, level) == [text |-> text, level |-> level]

Paren(w, level) ==
    IF w.level >= level THEN w.text ELSE <<ChOParen>> \o w.text \o <<ChCParen>>

RECURSIVE InfixStack(_, _, _)
InfixStack(p, i, stack) ==
    IF i > Len(p) THEN stack
    ELSE LET tok == p[i]
         IN  CASE tok.t = "Lit" /\ tok.lit.k = "Char" ->
                    InfixStack(p, i + 1, Append(stack, Written(<<tok.lit.lo>>, 4)))
               [] tok.t = "Lit" /\ tok.lit.k = "Range" ->
                    InfixStack(p, i + 1,
                        Append(stack, Written(<<tok.lit.lo, ChRange, tok.lit.hi>>, 4)))
               [] tok.t \in {"KleeneS", "KleeneP", "Optional"} ->
                    InfixStack(p, i + 1,
                        Append(Front(stack),
                            Written(Paren(Last(stack), 3) \o fmt_Token(tok), 3)))
               [] tok.t = "Concat" ->
                    InfixStack(p, i + 1,
                        Append(Front(Front(stack)),
                            Written(Paren(Last(Front(stack)), 3) \o Paren(Last(stack), 3), 2)))
               [] OTHER ->
                    InfixStack(p, i + 1,
                        Append(Front(Front(stack)),
                            Written(Paren(Last(Front(stack)), 2) \o <<ChUnion>>
                                        \o Paren(Last(stack), 2), 1)))

Infix(p) == InfixStack(p, 1, <<>>)[1].text

\* the expressions C17 is checked on: literals `a` and ranges `a-a` under
\* the operators, up to MaxExpr tokens
PrecLeaves == {TokLit(LitChar(97)), TokLit(LitRange(97, 97))}

PrecPrograms == ProgramsUpTo(PrecLeaves, MaxExpr)

\* their written sources that are short enough to be parsed here
WrittenSources ==
    {w \in {[src |-> Infix(p), postfix |-> p] : p \in PrecPrograms} : Len(w.src) <= MaxSrc}

\* C17: postfix operators bind tighter than the implicit concatenation,
\* which binds tighter than union, and a range binds tighter than a postfix
\* operator; chained postfix operators apply left to right: a source written
\* with parentheses only where these precedences need them parses to the
\* postfix of the expression it was written from.
C17_Precedence ==
    parsed.res # NoParse =>
        \A w \in WrittenSources :
            input = w.src => parsed.res.ok /\ parsed.res.tokens = w.postfix

\* `a?a|a` parsed as ((a?)a)|a
C17_Witness ==
    /\ pc = "parsed"
    /\ input = <<97, ChOptional, 97, ChUnion, 97>>
    /\ parsed.res.tokens = <<TokLit(LitChar(97)), Tok("Optional"), TokLit(LitChar(97)),
                             Tok("Concat"), TokLit(LitChar(97)), Tok("Union")>>

\* the tokens after which C20 says the lexer looks ahead for a Concat
ConcatAfter == {"CParen", "KleeneS", "KleeneP", "Optional", "Lit", "Eof"}

\* the token stream of the source s in which a Concat follows each token
\* of the kinds `after` whose next non-whitespace scalar exists and is none
\* of ) * + | ? -
RECURSIVE TokensWithConcat(_, _)
TokensWithConcat(s, after) ==
    LET inp == skip_whitespace(s)
    IN  IF inp = <<>> THEN <<>>
        ELSE LET m == peek_token(inp[1], Tail(inp))
                 ahead == skip_whitespace(m.rest)
             IN  IF m.tok.t \in after /\ ahead # <<>> /\ ahead[1] \notin NoConcatBefore
                 THEN <<m.tok, Tok("Concat")>> \o TokensWithConcat(m.rest, after)
                 ELSE <<m.tok>> \o TokensWithConcat(m.rest, after)

\* C20: the surface lexer emits a Concat after each CParen, KleeneS, KleeneP,
\* Optional, Lit and Eof token that is followed, past whitespace, by a scalar
\* other than ) * + | ? -, and no Concat after OParen, Union and Range.
C20_ImplicitConcat ==
    pc = "collected" => parsed.tokens = TokensWithConcat(input, ConcatAfter)

\* C20 with Eof among the tokens after which no Concat is emitted
C20_ImplicitConcatButEof ==
    pc = "collected" => parsed.tokens = TokensWithConcat(input, ConcatAfter \ {"Eof"})

-----------------------------------------------------------------------------
(* Several is_match calls on one shared NFA: each call is a thread with its *)
(* own input and its own Step, list and matches; the steps of the threads   *)
(* interleave.                                                              *)

\* the patterns shared: the well-formed programs over `a` of at most
\* MaxSharePat tokens
SharePatterns == ProgramsUpTo({TokLit(LitChar(97))}, MaxSharePat)

\* the scalars of the threads' inputs: a and b
ShareChars == {97, 98}

\* a thread before its call of is_match
Thread(inp) == [pc |-> "ready", input |-> inp, pos |-> 0, sim |-> NoSim, result |-> NoResult]

InitShare ==
    /\ pc = "share"
    /\ pats \in {<<Pat(NoLabel, p)>> : p \in SharePatterns}
    /\ input = <<>>
    /\ nfa = compile(pats[1].postfix).nfa
    /\ pos = 0
    /\ sim = NoSim
    /\ result = NoResult
    /\ lexer = NoLexer
    /\ hasEof = FALSE
    /\ item = NoItem
    /\ hist = NoHist
    /\ calls = 0
    /\ parsed = NoParsed
    /\ answer = NoAnswer
    /\ dfa = NoDFA
    /\ threads \in [1..ShareThreads -> {Thread(inp) : inp \in SeqsUpTo(ShareChars, MaxShareInput)}]

\* is_match up to the closure of the start state, in the thread th
thread_start(n, th) ==
    Bind(is_match_start(n), LAMBDA st :
        [th EXCEPT !.sim = st, !.pc = IF st.abort # "" THEN "aborted" ELSE "run"])

\* one pass of the loop over input.chars(), in the thread th
thread_char(n, th) ==
    Bind(is_match_char(n, th.sim, th.input[th.pos + 1]), LAMBDA st :
        [th EXCEPT !.sim = st, !.pos = @ + 1,
                   !.pc = IF st.abort # "" THEN "aborted" ELSE "run"])

\* the return of is_match, in the thread th
thread_return(n, th) ==
    [th EXCEPT !.result = is_match_result(n, th.sim, th.input), !.pc = "done"]

\* what a step of thread t that leaves it as `th` does to the process: a
\* thread that overflows its stack aborts the whole process
ThreadMoves(t, th) ==
    /\ threads' = [threads EXCEPT ![t] = th]
    /\ pc' = IF threads'[t].sim.abort = "overflow" THEN "aborted" ELSE pc
    /\ UNCHANGED <<pats, input, nfa, pos, sim, result, lexer, hasEof, item, hist, calls, parsed, answer,
                 dfa>>

\* thread t: is_match up to the closure of the start state
ThreadStart ==
    /\ pc = "share"
    /\ \E t \in 1..ShareThreads :
          /\ threads[t].pc = "ready"
          /\ ThreadMoves(t, thread_start(nfa, threads[t]))

\* thread t: one pass of the loop over input.chars()
ThreadStep ==
    /\ pc = "share"
    /\ \E t \in 1..ShareThreads :
          /\ threads[t].pc = "run"
          /\ threads[t].pos < Len(threads[t].input)
          /\ ThreadMoves(t, thread_char(nfa, threads[t]))

\* thread t: is_match returns
ThreadFinish ==
    /\ pc = "share"
    /\ \E t \in 1..ShareThreads :
          /\ threads[t].pc = "run"
          /\ threads[t].pos = Len(threads[t].input)
          /\ ThreadMoves(t, thread_return(nfa, threads[t]))

NextShare == ThreadStart \/ ThreadStep \/ ThreadFinish

SpecShare == InitShare /\ [][NextShare]_vars

\* C21: a range operator succeeds only when both of its operands are
\* exactly one single-character literal, and then the parse holds the one
\* token Lit(Range(lo..=hi)) in place of the two literals and no Range
\* token; with any other operand (a range, `$`, an expression ending in an
\* operator) the parse fails with InvalidRange.
C21_RangeOperands ==
    parsed.res # NoParse =>
        \A l \in LeftOperands, r \in RightOperands :
            input = RangeSource(l, r) =>
                parsed.res =
                    IF l.single /\ r.single
                    THEN [ok |-> TRUE, tokens |-> <<TokLit(LitRange(l.c, r.c))>>,
                          err |-> "", tok |-> Tok("Eof")]
                    ELSE [ok |-> FALSE, tokens |-> <<>>, err |-> "InvalidRange",
                          tok |-> Tok("Range")]

\* `(a)-\*` parsed to the one literal 'a'..='*'
C21_Witness ==
    /\ pc = "parsed"
    /\ input = <<ChOParen, 97, ChCParen, ChRange, ChBackslash, ChKleeneS>>
    /\ parsed.res.tokens = <<TokLit(LitRange(97, ChKleeneS))>>

-----------------------------------------------------------------------------
(* NFA::compile on any token list, well-formed or not, then is_match        *)

\* every kind of token a Postfix can hold, with the literal `a`
CompileToks ==
    {TokLit(LitChar(97)), Tok("Eof"), Tok("KleeneS"), Tok("KleeneP"), Tok("Optional"),
     Tok("Concat"), Tok("Union"), Tok("Range"), Tok("OParen"), Tok("CParen")}

\* Result<NFA, CompileError> without the automaton
Outcome(c) == [ok |-> c.ok, err |-> c.err, size |-> c.size, tok |-> c.tok]

InitCompile ==
    /\ pc = "compile"
    /\ pats \in {<<Pat(NoLabel, p)>> : p \in SeqsUpTo(CompileToks, MaxProg)}
    /\ input \in SeqsUpTo({97}, MaxProgInput)
    /\ nfa = NFA_new
    /\ pos = 0
    /\ sim = NoSim
    /\ result = NoResult
    /\ LexerIdle

\* NFA::compile(Postfix { tokens }): an unwrap() of None ends the call by
\* a panic
CompileAny ==
    /\ pc = "compile"
    /\ LET c == compile(pats[1].postfix)
       IN  /\ nfa' = c.nfa
           /\ parsed' = [parsed EXCEPT !.compiled = Outcome(c)]
           /\ pc' = IF c.ok THEN "ready" ELSE IF c.err = "panic" THEN "panicked"
                    ELSE "failed"
    /\ UNCHANGED <<pats, input, pos, sim, result, lexer, hasEof, item, hist, calls, threads, answer,
                 dfa>>

NextCompile == CompileAny \/ MatchStart \/ MatchStep \/ MatchFinish

SpecCompile == InitCompile /\ [][NextCompile]_vars

-----------------------------------------------------------------------------
(* NFA::is_fixed and NFA::generate on a compiled pattern and on the NFA held *)
(* by an NFASet                                                              *)

\* the loop of is_fixed over its stack `states`; `seen` holds the states
\* popped so far: only a Label pushes, so a state popped twice is popped for
\* ever ("hang")
RECURSIVE is_fixed_loop(_, _, _)
is_fixed_loop(n, states, seen) ==
    IF states = <<>> THEN "true"
    ELSE LET state == Last(states)
             rest == Front(states)
             t == Tr(n, state)
         IN  IF state \in seen THEN "hang"
             ELSE CASE t.k = "Label" ->
                         IF t.lit.k # "Char" THEN "false"
                         ELSE is_fixed_loop(n, Append(rest, t.e1), seen \cup {state})
                    [] t.k = "Split" ->
                         IF t.e1 # NoState \/ t.e2 # NoState THEN "false"
                         ELSE is_fixed_loop(n, rest, seen \cup {state})
                    [] OTHER -> is_fixed_loop(n, rest, seen \cup {state})

\* NFA::is_fixed
is_fixed(n) == is_fixed_loop(n, <<n.start>>, {})

\* what generate has once the entries pushed first are done after those
\* pushed last: nothing more happens after a call that never returns
gen_then(later, earlier) ==
    IF later.end # "" THEN later
    ELSE [words |-> later.words \cup earlier.words, end |-> earlier.end]

\* the share of generate's loop that stems from the stack entry (s, state):
\* the words inserted into `done`, and end = "hang" when the entry comes
\* back for ever (a cycle of Split and Group states: `path` holds those
\* passed since the last Label), "todo" when todo!() is reached
RECURSIVE generate_from(_, _, _, _)
generate_from(n, s, state, path) ==
    IF str_len(s) > MAX_LEN THEN [words |-> {}, end |-> ""]
    ELSE LET t == Tr(n, state)
         IN  CASE t.k = "Label" ->
                    IF t.lit.k = "Any" THEN [words |-> {}, end |-> "todo"]
                    ELSE generate_from(n, Append(s, t.lit.lo), t.e1, {})
               [] t.k = "Split" ->
                    IF state \in path THEN [words |-> {}, end |-> "hang"]
                    ELSE Bind(IF t.e2 # NoState
                              THEN generate_from(n, s, t.e2, path \cup {state})
                              ELSE [words |-> {}, end |-> ""],
                              LAMBDA later :
                                  IF later.end # "" \/ t.e1 = NoState THEN later
                                  ELSE gen_then(later,
                                           generate_from(n, s, t.e1, path \cup {state})))
               [] t.k = "Group" ->
                    IF state \in path THEN [words |-> {}, end |-> "hang"]
                    ELSE generate_from(n, s, t.e1, path \cup {state})
               [] OTHER -> [words |-> {s}, end |-> ""]

\* NFA::generate::<MAX_LEN>
generate(n) == generate_from(n, <<>>, n.start, {})

\* 'a', 'b', the range 'b'..='é' and `$`
FixLeaves == {TokLit(LitChar(97)), TokLit(LitChar(98)), TokLit(LitRange(98, 233)), Tok("Eof")}

\* a pattern compiled on its own, or a set handed to NFASet::build
InitFixed ==
    /\ \/ /\ pc = "compile"
          /\ pats \in {<<Pat(NoLabel, p)>> : p \in ProgramsUpTo(FixLeaves, MaxFixPat)}
       \/ /\ pc = "build"
          /\ pats \in LabelledSets(ProgramsUpTo(FixLeaves, MaxSetPat), MaxSetSize)
    /\ input = <<>>
    /\ nfa = NFA_new
    /\ pos = 0
    /\ sim = NoSim
    /\ result = NoResult
    /\ LexerIdle

\* nfa.is_fixed()
IsFixed ==
    /\ pc = "ready"
    /\ answer.fixed = "Nothing"
    /\ answer' = [answer EXCEPT !.fixed = is_fixed(nfa)]
    /\ UNCHANGED <<pc, pats, input, nfa, pos, sim, result, lexer, hasEof, item, hist, calls, parsed, threads,
                 dfa>>

\* nfa.generate::<MAX_LEN>()
Generate ==
    /\ pc = "ready"
    /\ answer.gen = "Nothing"
    /\ LET g == generate(nfa)
       IN  answer' = [answer EXCEPT !.gen = IF g.end = "" THEN "done" ELSE g.end,
                                    !.words = g.words]
    /\ UNCHANGED <<pc, pats, input, nfa, pos, sim, result, lexer, hasEof, item, hist, calls, parsed, threads,
                 dfa>>

NextFixed == Compile \/ BuildSet \/ IsFixed \/ Generate

SpecFixed == InitFixed /\ [][NextFixed]_vars

-----------------------------------------------------------------------------
(* dfa::DFA: a transition table given by its fields, and DFA::is_match *)

\* '0' and 'é' (two bytes): the scalars of the table's keys and of the input
DfaChars == {48, 233}

DfaStates == 0..(MaxDfaStates - 1)

\* HashMap<char, State>: a function on the keys the map holds
DfaMaps == UNION {[keys -> DfaStates] : keys \in SUBSET DfaChars}

\* the DFA values: one map per state, a start state, a set of accept states
DFAs ==
    [transitions : [1..MaxDfaStates -> DfaMaps], start : DfaStates, accept : SUBSET DfaStates]

\* the loop of DFA::is_match from state `current` over the scalars `rest`:
\* the state reached, or the panic! for a scalar the map does not hold
RECURSIVE dfa_run(_, _, _)
dfa_run(d, current, rest) ==
    IF rest = <<>> THEN [panic |-> FALSE, current |-> current]
    ELSE LET row == d.transitions[current + 1]
         IN  IF rest[1] \in DOMAIN row
             THEN dfa_run(d, row[rest[1]], Tail(rest))
             ELSE [panic |-> TRUE, current |-> current]

\* DFA::is_match: the Vec returned (the sizes of its NoGroup matches), or
\* the panic
dfa_is_match(d, inp) ==
    Bind(dfa_run(d, d.start, inp), LAMBDA r :
        IF r.panic THEN [panic |-> TRUE, matches |-> <<>>]
        ELSE IF r.current \in d.accept
        THEN [panic |-> FALSE, matches |-> <<str_len(inp)>>]
        ELSE [panic |-> FALSE, matches |-> <<>>])

InitDFA ==
    /\ pc = "dfa"
    /\ pats = <<>>
    /\ input \in SeqsUpTo(DfaChars, MaxDfaInput)
    /\ nfa = NFA_new
    /\ pos = 0
    /\ sim = NoSim
    /\ result = NoResult
    /\ lexer = NoLexer
    /\ hasEof = FALSE
    /\ item = NoItem
    /\ hist = NoHist
    /\ calls = 0
    /\ parsed = NoParsed
    /\ threads = <<>>
    /\ answer = NoAnswer
    /\ dfa \in DFAs

\* dfa.is_match(input)
DfaIsMatch ==
    /\ pc = "dfa"
    /\ answer' = [answer EXCEPT !.dfa = dfa_is_match(dfa, input)]
    /\ pc' = IF answer'.dfa.panic THEN "panicked" ELSE "done"
    /\ UNCHANGED <<pats, input, nfa, pos, sim, result, lexer, hasEof, item, hist, calls, parsed, threads,
                   dfa>>

NextDFA == DfaIsMatch

SpecDFA == InitDFA /\ [][NextDFA]_vars

-----------------------------------------------------------------------------
(* Claims about the fused automaton and about compile *)

\* the states the edges of the Label and Split states of n lead to
LabelSplitTargets(n) ==
    LET from == {j \in 1..Len(n.transitions) : n.transitions[j].k \in {"Label", "Split"}}
    IN  ({n.transitions[i].e1 : i \in from} \cup {n.transitions[i].e2 : i \in from})
            \ {NoState}

\* C22: after NFASet::build has fused two or more automata, `eof` is state 0
\* of the fused automaton, every edge that leads to an Accept state leads to
\* the fused `accept`, and every edge that leads to an Eof state leads to the
\* fused `eof`.
C22_OneAcceptOneEof ==
    pc \notin {"build", "failed"} /\ Len(pats) >= 2 =>
        /\ nfa.eof = 0
        /\ Tr(nfa, nfa.eof).k = "Eof"
        /\ Tr(nfa, nfa.accept).k = "Accept"
        /\ \A e \in LabelSplitTargets(nfa) :
               /\ Tr(nfa, e).k = "Accept" => e = nfa.accept
               /\ Tr(nfa, e).k = "Eof" => e = nfa.eof

\* C22 for the accept state alone
C22_OneAccept ==
    pc \notin {"build", "failed"} /\ Len(pats) >= 2 =>
        /\ nfa.eof = 0
        /\ Tr(nfa, nfa.eof).k = "Eof"
        /\ Tr(nfa, nfa.accept).k = "Accept"
        /\ \A e \in LabelSplitTargets(nfa) : Tr(nfa, e).k = "Accept" => e = nfa.accept

\* the match lengths a result of is_match reports
Lengths(res) ==
    {res.matches[i].n : i \in 1..Len(res.matches)}
    \cup {res.eofs[i].n : i \in 1..Len(res.eofs)}

\* what the component automata report when each is run alone on the input
AloneResults == {is_match(compile(pats[i].postfix).nfa, input) : i \in 1..Len(pats)}

AloneLengths == UNION {Lengths(r) : r \in AloneResults}

\* C23: for every non-empty list of labelled patterns and every input, the
\* greatest match length the set reports is the greatest match length any
\* component reports alone, and the set reports nothing iff every component
\* reports nothing; patterns with `$` included.
C23_SetAsComponents ==
    pc = "done" /\ pats # <<>> /\ (\A r \in AloneResults : r.abort = "") =>
        /\ Lengths(result) = {} <=> AloneLengths = {}
        /\ Lengths(result) # {} => Max(Lengths(result)) = Max(AloneLengths)

\* C23 for the sets in which only the base (the last pair) uses `$`
C23_SetAsComponentsEofInBase ==
    /\ pc = "done" /\ pats # <<>> /\ (\A r \in AloneResults : r.abort = "")
    /\ \A i \in 1..(Len(pats) - 1) : ~HasEofTok(pats[i].postfix)
    => /\ Lengths(result) = {} <=> AloneLengths = {}
       /\ Lengths(result) # {} => Max(Lengths(result)) = Max(AloneLengths)

\* the fusion C24 describes: the first pair is the base, the pairs after
\* it are appended in order
FirstAsBase(nfas) ==
    Bind(new_group_state(nfas[1].nfa, nfas[1].label),
         LAMBDA base : build_loop(base, Tail(nfas)))

\* C24: NFASet::build takes the first pair of the Vec as the base, keeps its
\* state indices, and appends each later pair in order behind a new Split
\* start state.
C24_FirstIsBase ==
    pc \notin {"build", "failed"} /\ pats # <<>> => nfa = FirstAsBase(CompiledSet(pats))

\* C24 for the Vecs of one pair
C24_FirstIsBaseOfOne ==
    pc \notin {"build", "failed"} /\ Len(pats) = 1 => nfa = FirstAsBase(CompiledSet(pats))

\* C25: NFA::compile on the empty postfix returns Ok with an automaton
\* whose start is its accept state, and is_match reports length 0 on it for
\* every input.
C25_EmptyPostfix ==
    pats # <<>> /\ pats[1].postfix = <<>> /\ pc # "compile" =>
        /\ parsed.compiled.ok
        /\ nfa.start = nfa.accept
        /\ pc = "done" => Lengths(result) = {0}

\* every token of the program is consumed by compile: none is a
\* parenthesis or a Range, and no operator finds too few fragments
AllConsumed(postfix) ==
    /\ \A i \in 1..Len(postfix) : postfix[i].t \notin {"OParen", "CParen", "Range"}
    /\ Operands(postfix, 1, 0) >= 0

\* C26: when all tokens are consumed and the fragment stack does not hold
\* exactly one fragment, compile fails with NonUnaryStack{size}, size being
\* the number of fragments on the stack at that point.
C26_NonUnaryStackSize ==
    /\ pats # <<>> /\ pc # "compile"
    /\ AllConsumed(pats[1].postfix)
    /\ Operands(pats[1].postfix, 1, 0) # 1
    => parsed.compiled = [ok |-> FALSE, err |-> "NonUnaryStack",
                          size |-> Operands(pats[1].postfix, 1, 0), tok |-> ""]

\* C26 without the size: the failure is NonUnaryStack
C26_NonUnaryStack ==
    /\ pats # <<>> /\ pc # "compile"
    /\ AllConsumed(pats[1].postfix)
    /\ Operands(pats[1].postfix, 1, 0) # 1
    => /\ ~parsed.compiled.ok
       /\ parsed.compiled.err = "NonUnaryStack"
       /\ parsed.compiled.size = Max({0, Operands(pats[1].postfix, 1, 0) - 1})

\* the error C27 names for the first token of the program, from index i on
\* with `depth` fragments on the stack, that compile cannot consume; err is
\* "" when there is no such token
RECURSIVE TokenError(_, _, _)
TokenError(postfix, i, depth) ==
    IF i > Len(postfix) THEN [ok |-> TRUE, err |-> "", size |-> 0, tok |-> ""]
    ELSE LET t == postfix[i].t
         IN  CASE t = "OParen" -> [ok |-> FALSE, err |-> "UnexpectedOpenParen", size |-> 0, tok |-> ""]
               [] t = "CParen" -> [ok |-> FALSE, err |-> "UnexpectedCloseParen", size |-> 0, tok |-> ""]
               [] t = "Range" -> [ok |-> FALSE, err |-> "UnexpectedRange", size |-> 0, tok |-> ""]
               [] t \in {"KleeneS", "KleeneP", "Optional"} ->
                    IF depth < 1 THEN [ok |-> FALSE, err |-> "EmptyStack", size |-> 0, tok |-> t]
                    ELSE TokenError(postfix, i + 1, depth)
               [] t \in {"Concat", "Union"} ->
                    IF depth < 2 THEN [ok |-> FALSE, err |-> "EmptyStack", size |-> 0, tok |-> t]
                    ELSE TokenError(postfix, i + 1, depth - 1)
               [] OTHER -> TokenError(postfix, i + 1, depth + 1)

\* C27: compile never panics; an operator that finds too few fragments on
\* the stack yields EmptyStack naming the operator, and OParen, CParen and
\* Range yield UnexpectedOpenParen, UnexpectedCloseParen and UnexpectedRange.
C27_ErrorsAreValues ==
    pats # <<>> /\ pc # "compile" =>
        /\ pc # "panicked"
        /\ TokenError(pats[1].postfix, 1, 0).err # "" =>
               parsed.compiled = TokenError(pats[1].postfix, 1, 0)

\* C27 for the programs in which no operator but KleeneS finds too few
\* fragments
C27_ErrorsAreValuesButUnwrap ==
    /\ pats # <<>> /\ pc # "compile"
    /\ TokenError(pats[1].postfix, 1, 0).tok \in {"", "KleeneS"}
    => /\ pc # "panicked"
       /\ TokenError(pats[1].postfix, 1, 0).err # "" =>
              parsed.compiled = TokenError(pats[1].postfix, 1, 0)

\* compile has returned Ok
Compiled == pc \in {"ready", "run", "done", "aborted"}

ValidState(n, e) == e >= 0 /\ e < Len(n.transitions)

\* C28: after a successful compile, state 0 is the only Eof state and is
\* `eof`, `accept` is the only Accept state, `start` and every successor of
\* a Label and every present successor of a Split are indices into
\* `transitions`, no Label state leads to itself, and the only Split states
\* with a vacant slot are those created for `$` (their first slot is `eof`,
\* their second slot is vacant).
C28_WellFormedNFA ==
    Compiled =>
        /\ nfa.eof = 0
        /\ \A i \in 0..(Len(nfa.transitions) - 1) :
               LET t == Tr(nfa, i)
               IN  /\ t.k = "Eof" <=> i = nfa.eof
                   /\ t.k = "Accept" <=> i = nfa.accept
                   /\ t.k = "Label" => ValidState(nfa, t.e1) /\ t.e1 # i
                   /\ t.k = "Split" =>
                          /\ ValidState(nfa, t.e1)
                          /\ t.e2 # NoState => ValidState(nfa, t.e2)
                          /\ t.e2 = NoState <=> t.e1 = nfa.eof
                   /\ t.k # "Group"
        /\ ValidState(nfa, nfa.start)
        /\ ValidState(nfa, nfa.accept)

\* `($|a*)` compiled
C28_Witness ==
    /\ pc = "ready"
    /\ pats[1].postfix = <<Tok("Eof"), TokLit(LitChar(97)), Tok("KleeneS"), Tok("Union")>>
    /\ Len(nfa.transitions) = 6

\* the builder of compile after the first k tokens of the program
BuilderAt(postfix, k) ==
    compile_tokens(Builder([new_accept_state(NFA_new) EXCEPT !.accept = 1], <<>>, "", ""),
                   SubSeq(postfix, 1, k))

\* the out lists of all fragments of a stack, one after the other
RECURSIVE AllOuts(_)
AllOuts(stack) == IF stack = <<>> THEN <<>> ELSE stack[1].out \o AllOuts(Tail(stack))

\* every out state of the builder's fragments is a Label still leading to
\* itself or a Split with a vacant second slot, and is listed once
OutsVacant(b) ==
    LET outs == AllOuts(b.stack)
    IN  /\ \A i \in 1..Len(outs) :
               LET t == Tr(b.nfa, outs[i])
               IN  \/ t.k = "Label" /\ t.e1 = outs[i]
                   \/ t.k = "Split" /\ t.e2 = NoState
        /\ \A i, j \in 1..Len(outs) : outs[i] = outs[j] => i = j

\* C29: during the compile of a well-formed postfix, after every token, each
\* state in the out list of a fragment on the stack is an unpatched Label or
\* a Split with a vacant second slot and is in one out list only; patch
\* never reaches a panic arm.
C29_OutsAreVacant ==
    pc # "compile" /\ pats # <<>> =>
        /\ \A k \in 0..Len(pats[1].postfix) :
               /\ BuilderAt(pats[1].postfix, k).err = ""
               /\ OutsVacant(BuilderAt(pats[1].postfix, k))
        /\ pc # "failed"

\* `(a|a)?` compiled: before the `?` the one fragment has two out states
C29_Witness ==
    /\ pc = "ready"
    /\ pats[1].postfix = <<TokLit(LitChar(97)), TokLit(LitChar(97)), Tok("Union"),
                           Tok("Optional")>>
    /\ Len(BuilderAt(pats[1].postfix, 3).stack[1].out) = 2
    /\ Len(BuilderAt(pats[1].postfix, 4).stack[1].out) = 3

\* C30: in every generation of an is_match call, the first closure and the
\* closure after each character, no state is twice in the frontier list, so
\* the list has at most as many entries as the automaton has states.
C30_NoStateRevisits ==
    pc \in {"run", "done", "aborted"} =>
        /\ \A i, j \in 1..Len(sim.list) : sim.list[i][2] = sim.list[j][2] => i = j
        /\ Len(sim.list) <= Len(nfa.transitions)

\* `a|a` after reading `a`: both Label states lead to the accepting state,
\* which is in the frontier once
C30_Witness ==
    /\ pc = "run"
    /\ pos = 1
    /\ input[1] = 97
    /\ pats[1].postfix = <<TokLit(LitChar(97)), TokLit(LitChar(97)), Tok("Union")>>
    /\ sim.step = 2
    /\ sim.list = <<<<NoLabel, nfa.accept>>>>

\* C31: every entry of a frontier list is a Label, Accept or Eof state, for
\* the automaton of compile and of NFASet::build alike; step never reaches
\* its unreachable!() arm.
C31_FrontierKinds ==
    pc \in {"run", "done", "aborted"} =>
        /\ \A i \in 1..Len(sim.list) :
               Tr(nfa, sim.list[i][2]).k \in {"Label", "Accept", "Eof"}
        /\ sim.abort # "unreachable"

\* a set of two patterns after one character: the frontier was reached
\* through Split and Group states and holds a Label state under a label
C31_Witness ==
    /\ pc = "run"
    /\ pos = 1
    /\ Len(pats) = 2
    /\ Tr(nfa, nfa.start).k = "Split"
    /\ \E i \in 1..Len(sim.list) :
          /\ sim.list[i][1] # NoLabel
          /\ Tr(nfa, sim.list[i][2]).k = "Label"

\* the byte offsets of w at which a scalar starts or w ends: the offsets at
\* which &w[n..] does not panic
ScalarBoundaries(w) == {str_len(SubSeq(w, 1, k)) : k \in 0..Len(w)}

\* C32: every length is_match reports is the byte length of a prefix of the
\* input's scalars: at most input.len() and on a scalar boundary.
C32_LengthsOnBoundaries ==
    pc = "done" =>
        \A len \in Lengths(result) :
            /\ len <= str_len(input)
            /\ len \in ScalarBoundaries(input)

\* a match that ends after the two-byte scalar U+00E9, inside the input
C32_Witness ==
    /\ pc = "done"
    /\ Len(input) = 3
    /\ input[2] = 233
    /\ 3 \in Lengths(result)
    /\ str_len(input) > 3

\* C33: for an NFA compiled from one pattern, is_match returns at most one
\* match: the match of the accepting state and the match of the Eof state
\* are never both reported.
C33_AtMostOneMatch ==
    pc = "done" /\ Len(pats) = 1 /\ pats[1].label = NoLabel =>
        Len(result.matches) + Len(result.eofs) <= 1

\* what does hold: at most one match of the accepting state, at most one of
\* the Eof state, and one match at most for a pattern without `$`
C33_AtMostOneOfEach ==
    pc = "done" /\ Len(pats) = 1 /\ pats[1].label = NoLabel =>
        /\ Len(result.matches) <= 1
        /\ Len(result.eofs) <= 1
        /\ ~HasEofTok(pats[1].postfix) => result.eofs = <<>>

\* what the token set's is_match returns in the coming call of Lexer::next,
\* on the input left after the skip step
ComingMatches == is_match(nfa, lexer_skip(lexer).input)

\* the entries of greatest length among the returned ones
Greatest(res) ==
    LET all == Range(res.matches) \cup Range(res.eofs)
    IN  {m \in all : \A o \in all : match_size(o) <= match_size(m)}

\* C34: the lexer's choice is deterministic: a call of Lexer::next has one
\* outcome whatever order the matches are returned in, and the returned
\* matches never hold two labels with the same greatest length.
C34_UniqueMaximum ==
    pc = "lex" =>
        /\ Cardinality(lexer_next(lexer, nfa, hasEof)) = 1
        /\ Cardinality(Greatest(ComingMatches)) <= 1

\* C34 as it holds: a call of Lexer::next has one outcome whatever order the
\* matches are returned in; the matches of the accepting state have
\* different lengths, and a match of the Eof state, the only one that can
\* equal the greatest of them, is the last of the Vec and is the one chosen.
C34_Deterministic ==
    pc = "lex" =>
        /\ Cardinality(lexer_next(lexer, nfa, hasEof)) = 1
        /\ LET res == ComingMatches
           IN  /\ \A i, j \in 1..Len(res.matches) :
                      match_size(res.matches[i]) = match_size(res.matches[j]) => i = j
               /\ Len(res.eofs) <= 1
               /\ \A v \in MatchVecs(res) :
                      res.eofs # <<>> /\ res.eofs[1] \in Greatest(res) =>
                          max_by_key(v) = res.eofs[1]

\* Lexer::next has returned a token for which two patterns accepted the same
\* longest prefix, one through the accepting state and one through the Eof
\* state: it is the token of the Eof match
C34_Witness ==
    /\ pc = "lex"
    /\ Len(pats) = 2
    /\ item.kind = "Ok"
    /\ item.end > item.start
    /\ LET res == is_match(nfa, str_from(input, item.start))
       IN  /\ Len(res.matches) = 1
           /\ Len(res.eofs) = 1
           /\ Cardinality(Greatest(res)) = 2
           /\ res.matches[1].l # res.eofs[1].l
           /\ item.token = res.eofs[1].l

\* inputs of blanks of all three kinds and a letter
SkipInputs == SeqsUpTo({32, 9, 10, 97}, 3)

\* the source text r"(\n|\t|\ )*" of the skip pattern
SkipSource == <<40, 92, 110, 124, 92, 116, 124, 92, 32, 41, 42>>

\* SkipPostfix is what the parser makes of the source of the skip pattern,
\* and skip_chars returns the byte length of the leading blanks
SkipsLeadingBlanks ==
    /\ from_str(SkipSource).ok
    /\ from_str(SkipSource).tokens = SkipPostfix
    /\ \A w \in SkipInputs :
        /\ skip_chars(w).abort = ""
        /\ skip_chars(w).n = str_len(w) - str_len(AfterBlanks(w))

\* the scalar at byte offset o of the input exists and is not a blank
AtNonBlank(o) == InputFrom(o) # <<>> /\ ~IsBlank(InputFrom(o)[1])

\* C35: the skip step of Lexer::next advances past the longest prefix of the
\* remaining input made of spaces, tabs and newlines, so every Ok span of
\* positive length starts, and every UnrecognizedToken error points, at a
\* scalar that is not a space, tab or newline.
C35_SkipsBlanks ==
    /\ SkipsLeadingBlanks
    /\ pc = "lex" =>
          /\ lexer_skip(lexer).input = AfterBlanks(lexer.input)
          /\ lexer_skip(lexer).consumed
                 = lexer.consumed + str_len(lexer.input) - str_len(AfterBlanks(lexer.input))
    /\ item.kind = "Ok" /\ item.end > item.start => AtNonBlank(item.start)
    /\ item.kind = "Err" => AtNonBlank(item.loc)

\* a token returned after a blank was skipped
C35_Witness ==
    /\ item.kind = "Ok"
    /\ item.end > item.start
    /\ item.start = 1
    /\ input[1] = 32

\* an error returned after a blank was skipped
C35_WitnessErr ==
    /\ item.kind = "Err"
    /\ item.loc = 1
    /\ input[1] = 32

\* the words the languages are compared on
FixWords == SeqsUpTo({97, 98, 233}, MaxFixPat)

\* the words of FixWords some pattern of ps accepts as a whole
AcceptedWords(ps) ==
    {w \in FixWords :
        \E i \in 1..Len(ps) : <<0, Len(w)>> \in Spans(ps[i].postfix, w, <<>>)[1]}

\* C36: whenever is_fixed returns true for an NFA, one made by compile or
\* the one held by an NFASet, that NFA accepts exactly one string.
C36_FixedIsOneString ==
    answer.fixed = "true" => Cardinality(AcceptedWords(pats)) = 1

\* what does hold: is_fixed returns, and for an NFA made by compile it
\* returns true only when the pattern accepts exactly one string
C36_FixedIsOneStringCompiled ==
    /\ answer.fixed # "hang"
    /\ answer.fixed = "true" /\ pats[1].label = NoLabel =>
          Cardinality(AcceptedWords(pats)) = 1

\* the pattern is built from single-character literals only
OnlyCharLits(postfix) ==
    \A i \in 1..Len(postfix) : postfix[i].t = "Lit" => postfix[i].lit.k = "Char"

\* the words of the pattern's language of at most MAX_LEN bytes
WordsUpToMaxLen(postfix) ==
    {w \in SeqsUpTo({97, 98}, MAX_LEN) :
        /\ str_len(w) <= MAX_LEN
        /\ <<0, Len(w)>> \in Spans(postfix, w, <<>>)[1]}

\* generate was called on the NFA compiled from one pattern of
\* single-character literals and operators
GeneratedFromChars ==
    /\ answer.gen # "Nothing"
    /\ Len(pats) = 1
    /\ pats[1].label = NoLabel
    /\ OnlyCharLits(pats[1].postfix)
    /\ ~HasEofTok(pats[1].postfix)

\* C37: for a pattern built only from single-character literals, generate
\* terminates and returns exactly the words of the pattern's language of
\* length at most MAX_LEN.
C37_GenerateTerminates ==
    GeneratedFromChars =>
        /\ answer.gen = "done"
        /\ answer.words = WordsUpToMaxLen(pats[1].postfix)

\* what does hold: whenever generate returns, it returns exactly those words
C37_GenerateWhenReturned ==
    GeneratedFromChars /\ answer.gen = "done" =>
        answer.words = WordsUpToMaxLen(pats[1].postfix)

\* the table has a transition for every scalar of the input on the way
\* from the start state
RECURSIVE AllDefined(_, _, _)
AllDefined(d, current, rest) ==
    \/ rest = <<>>
    \/ /\ rest[1] \in DOMAIN d.transitions[current + 1]
       /\ AllDefined(d, d.transitions[current + 1][rest[1]], Tail(rest))

\* the state the table leads to from `current` over `rest`, all defined
RECURSIVE Reached(_, _, _)
Reached(d, current, rest) ==
    IF rest = <<>> THEN current
    ELSE Reached(d, d.transitions[current + 1][rest[1]], Tail(rest))

\* [NoGroup(input.len())] when the table leads to an accept state, an empty
\* Vec when it leads elsewhere or has no transition for a scalar
Accepting(d, inp) ==
    IF AllDefined(d, d.start, inp) /\ Reached(d, d.start, inp) \in d.accept
    THEN <<str_len(inp)>>
    ELSE <<>>

\* C38: DFA::is_match returns [NoGroup(input.len())] when the state reached
\* after the last character is in `accept` and an empty collection
\* otherwise; a character with no transition from the current state gives
\* the empty result.
C38_MissingIsRejection ==
    pc # "dfa" =>
        /\ ~answer.dfa.panic
        /\ answer.dfa.matches = Accepting(dfa, input)

\* what does hold: the call returns exactly when the table has a transition
\* for every scalar on the way, and then with that result
C38_WhenAllDefined ==
    pc # "dfa" =>
        /\ answer.dfa.panic <=> ~AllDefined(dfa, dfa.start, input)
        /\ ~answer.dfa.panic => answer.dfa.matches = Accepting(dfa, input)

-----------------------------------------------------------------------------
(* Claims about the simulation: termination and sharing *)

\* the postfix is parsable: the source Display writes for it parses to it
Parsable(postfix) ==
    from_str(fmt_Postfix(postfix).text) =
        [ok |-> TRUE, tokens |-> postfix, err |-> "", tok |-> Tok("Eof")]

\* C19: is_match terminates for every NFA compiled from a parsable pattern
\* and every finite input: add_state never recurses without end.
C19_Terminates ==
    pc = "aborted" /\ Parsable(pats[1].postfix) => sim.abort # "overflow"

\* what the call of thread t returns when it runs alone
Alone(t) == is_match(nfa, threads[t].input)

\* C18: is_match leaves the NFA as it was compiled, and in every
\* interleaving of is_match calls on one shared NFA each call returns what
\* it returns when it runs alone: a call that returns alone also returns
\* here, with the same matches.
C18_SharedSimulation ==
    pc \in {"share", "aborted"} /\ threads # <<>> =>
        /\ nfa = compile(pats[1].postfix).nfa
        /\ \A t \in 1..ShareThreads :
               /\ threads[t].pc = "done" => threads[t].result = Alone(t)
               /\ pc = "aborted" /\ Alone(t).abort = "" => threads[t].pc = "done"

\* C18, for the calls that return
C18_SharedSimulationWhenReturned ==
    pc \in {"share", "aborted"} /\ threads # <<>> =>
        /\ nfa = compile(pats[1].postfix).nfa
        /\ \A t \in 1..ShareThreads :
               threads[t].pc = "done" => threads[t].result = Alone(t)

=============================================================================
